---- MODULE Spec2Model ----
(***************************************************************************)
(* Tool-invocation orchestration layer of positive-ai-agents:              *)
(*   functions/mcp_function_calling.py  FunctionCallParser, Gemini handler, *)
(*                                      result formatting                   *)
(*   functions/mcp_dispatcher.py        MCPToolDispatcher                   *)
(*   functions/mcp_client.py            MCPClient                           *)
(*   functions/mcp_tool_executor.py     MCPToolExecutor                     *)
(*   functions/mcp_servers.py           server table, agent allow-lists     *)
(*                                                                         *)
(* Python values are modelled as follows.  Optional[x] is a sequence:      *)
(* None is << >> and a present value v is << v >>.  A dict is the sequence *)
(* of its << key, value >> pairs in insertion order.  Message strings are  *)
(* tuples of their parts, so that the tool and agent a message names can   *)
(* be read back.  A Python call that may raise yields a record whose tag   *)
(* is "ToolResult"/"return" or "Exception".                                *)
(***************************************************************************)
EXTENDS Integers, Sequences, FiniteSets, TLC

VARIABLES
    env,              \* services whose credentials the configuration source supplies
    executor,         \* module global _tool_executor and its `initialized` flag
    tool_to_server,   \* MCPClient.tool_to_server, a dict as << tool, server >> pairs
    execution_stats,  \* MCPToolExecutor.execution_stats
    turn,             \* one record per process_llm_response task
    parse_in,         \* input of a parse_llm_response call: text and allowed names
    parse_out,        \* its detections before deduplication and its result
    environ,          \* os.environ and the file system, as the credential loader reads them
    credentials_cache,\* MCPAuthManager.credentials_cache, a dict as << service, creds >> pairs
    now,              \* datetime.now(), in hours
    auth_ret,         \* the last call of a method of the manager that has returned
    refresh_task,     \* one record per caller of refresh_oauth_token
    issued            \* number of access tokens the token endpoint has issued

\* the state of the credential manager
auth_vars == << environ, credentials_cache, now, auth_ret, refresh_task, issued >>

vars == << env, executor, tool_to_server, execution_stats, turn, parse_in, parse_out,
           auth_vars >>

----------------------------------------------------------------------------
(* Bounds of the model *)

\* longest natively structured invocation list of a turn
MaxNative == 2
\* longest text (in segments) handed to the parser on its own
MaxSegments == 3
\* longest call list handed to batch_execute or dispatch_batch directly
MaxBatch == 2
\* number of process_llm_response calls made one after the other on the executor
MaxTurns == 2
\* hours the clock of the credential manager runs for
MaxClock == 2
\* access tokens the token endpoint issues
MaxIssued == 2

----------------------------------------------------------------------------
(* Generic helpers *)

None == << >>
Some(v) == << v >>

Range(s) == { s[i] : i \in DOMAIN s }

SeqsUpTo(S, n) == UNION { [1..k -> S] : k \in 0..n }

RECURSIVE Flatten(_)
\* the concatenation of the sequences of ss
Flatten(ss) == IF ss = << >> THEN << >> ELSE Head(ss) \o Flatten(Tail(ss))

----------------------------------------------------------------------------
(* Python dicts as sequences of << key, value >> pairs *)

DictKeys(d) == { d[i][1] : i \in DOMAIN d }

DictHas(d, k) == k \in DictKeys(d)

\* d[k] for a key that is present
DictGet(d, k) == d[CHOOSE i \in DOMAIN d : d[i][1] = k][2]

\* d[k] = v: a present key keeps its position, a new key is appended
DictPut(d, k, v) ==
    IF DictHas(d, k)
    THEN [ i \in DOMAIN d |-> IF d[i][1] = k THEN << k, v >> ELSE d[i] ]
    ELSE Append(d, << k, v >>)

DictValues(d) == [ i \in DOMAIN d |-> d[i][2] ]

----------------------------------------------------------------------------
(* Static tables *)

\* the servers of get_mcp_server_configs, in the order of the table
ServerOrder ==
    <<
       "github", "google_drive", "jira", "slack", "linear", "notion",
       "web_search", "email", "google_calendar", "database"
    >>

\* the "enabled" entry of each server of the table
ServerEnabledFlag ==
  ("github" :> TRUE) @@
  ("google_drive" :> TRUE) @@
  ("jira" :> TRUE) @@
  ("slack" :> TRUE) @@
  ("linear" :> FALSE) @@
  ("notion" :> FALSE) @@
  ("web_search" :> TRUE) @@
  ("email" :> TRUE) @@
  ("google_calendar" :> TRUE) @@
  ("database" :> FALSE)

\* the "tools" list of each server of the table
ServerTools ==
  ("github" :> <<
      "create_repository", "get_repository", "list_repositories",
      "create_issue", "update_issue", "list_issues", "create_pull_request",
      "get_file_contents", "create_file", "update_file", "delete_file",
      "search_repositories", "search_code", "get_repository_structure" >>) @@
  ("google_drive" :> <<
      "create_document", "create_spreadsheet", "create_presentation",
      "read_document", "update_document", "list_files", "search_files",
      "share_file", "download_file", "upload_file", "create_folder",
      "move_file", "copy_file", "delete_file" >>) @@
  ("jira" :> <<
      "create_issue", "update_issue", "get_issue", "delete_issue",
      "search_issues", "add_comment", "assign_issue", "transition_issue",
      "create_project", "get_project", "list_projects",
      "get_project_components", "get_project_versions", "create_epic",
      "add_issue_to_epic" >>) @@
  ("slack" :> <<
      "send_message", "send_direct_message", "list_channels",
      "get_channel_info", "create_channel", "invite_to_channel", "list_users",
      "get_user_info", "schedule_message", "upload_file",
      "get_message_history", "pin_message", "react_to_message" >>) @@
  ("linear" :> <<
      "create_issue", "update_issue", "get_issue", "list_issues",
      "assign_issue", "create_project", "get_project", "list_projects",
      "create_team", "get_team", "list_teams", "add_comment",
      "update_issue_status" >>) @@
  ("notion" :> <<
      "create_page", "update_page", "get_page", "delete_page", "search_pages",
      "create_database", "query_database", "create_database_entry",
      "update_database_entry", "get_database_entry" >>) @@
  ("web_search" :> <<
      "web_search", "news_search", "image_search", "video_search",
      "get_page_content", "get_page_summary" >>) @@
  ("email" :> <<
      "send_email", "send_html_email", "send_email_with_attachment",
      "read_emails", "search_emails", "mark_email_read", "delete_email",
      "create_draft" >>) @@
  ("google_calendar" :> <<
      "create_event", "update_event", "delete_event", "get_event",
      "list_events", "search_events", "create_meeting", "list_calendars",
      "get_free_busy", "send_invitation" >>) @@
  ("database" :> <<
      "execute_query", "execute_update", "list_tables", "describe_table",
      "get_table_data", "create_table", "insert_data", "update_data",
      "delete_data" >>)

\* MCPToolDispatcher._build_tool_mapping: << name, handler >> in the order written
ToolMappingTable ==
  <<
     <<"create_issue", "github_create_issue">>, <<"github_create_issue",
     "github_create_issue">>, <<"get_repository", "github_get_repository">>,
     <<"github_get_repository", "github_get_repository">>, <<"list_issues",
     "github_list_issues">>, <<"github_list_issues", "github_list_issues">>,
     <<"get_file_contents", "github_get_file_contents">>,
     <<"github_get_file_contents", "github_get_file_contents">>,
     <<"create_file", "github_create_file">>, <<"github_create_file",
     "github_create_file">>, <<"search_repositories",
     "github_search_repositories">>, <<"github_search_repositories",
     "github_search_repositories">>, <<"create_jira_issue",
     "jira_create_issue">>, <<"jira_create_issue", "jira_create_issue">>,
     <<"get_issue", "jira_get_issue">>, <<"jira_get_issue",
     "jira_get_issue">>, <<"update_issue", "jira_update_issue">>,
     <<"jira_update_issue", "jira_update_issue">>, <<"search_issues",
     "jira_search_issues">>, <<"jira_search_issues", "jira_search_issues">>,
     <<"add_comment", "jira_add_comment">>, <<"jira_add_comment",
     "jira_add_comment">>, <<"transition_issue", "jira_transition_issue">>,
     <<"jira_transition_issue", "jira_transition_issue">>, <<"list_projects",
     "jira_list_projects">>, <<"jira_list_projects", "jira_list_projects">>,
     <<"create_document", "gdrive_create_document">>,
     <<"gdrive_create_document", "gdrive_create_document">>,
     <<"create_spreadsheet", "gdrive_create_spreadsheet">>,
     <<"gdrive_create_spreadsheet", "gdrive_create_spreadsheet">>,
     <<"read_document", "gdrive_read_document">>, <<"gdrive_read_document",
     "gdrive_read_document">>, <<"update_document",
     "gdrive_update_document">>, <<"gdrive_update_document",
     "gdrive_update_document">>, <<"list_files", "gdrive_list_files">>,
     <<"gdrive_list_files", "gdrive_list_files">>, <<"search_files",
     "gdrive_list_files">>, <<"share_file", "gdrive_share_file">>,
     <<"gdrive_share_file", "gdrive_share_file">>, <<"web_search",
     "web_search">>, <<"search_web", "web_search">>, <<"news_search",
     "news_search">>, <<"search_news", "news_search">>, <<"get_page_content",
     "get_page_content">>, <<"fetch_page", "get_page_content">>,
     <<"get_page_summary", "get_page_summary">>, <<"summarize_page",
     "get_page_summary">>, <<"send_email", "send_email">>, <<"email_send",
     "send_email">>, <<"send_html_email", "send_html_email">>,
     <<"send_email_with_attachment", "send_email_with_attachment">>,
     <<"email_with_attachment", "send_email_with_attachment">>,
     <<"create_draft", "create_draft">>, <<"create_email_draft",
     "create_draft">>, <<"create_event", "not_implemented">>, <<"list_events",
     "not_implemented">>, <<"get_free_busy", "not_implemented">>
  >>

\* MCPAuthManager.env_mapping: the services the credential store knows
EnvMappedServices == { "github", "google_drive", "jira", "slack", "linear", "notion" }

\* servers enabled whatever the credentials are
NoAuthServers == { "web_search", "email" }

\* get_tools_for_agent: agent_tool_mapping
AgentToolMapping ==
  ("posiAgent" :> <<
      "web_search", "news_search", "get_page_content", "search_files",
      "read_document", "list_files", "list_events", "create_event",
      "get_free_busy", "send_email" >>) @@
  ("minutaMaker" :> <<
      "create_document", "update_document", "read_document",
      "create_spreadsheet", "share_file", "upload_file", "create_event",
      "send_invitation", "send_email", "send_email_with_attachment" >>) @@
  ("jiraAssistant" :> <<
      "create_issue", "update_issue", "get_issue", "search_issues",
      "add_comment", "assign_issue", "transition_issue", "create_project",
      "get_project", "list_projects", "create_epic", "add_issue_to_epic",
      "read_document", "create_document" >>)

\* agent_tool_mapping.get(agent_id, [])
get_tools_for_agent(agent_id) ==
    IF agent_id \in DOMAIN AgentToolMapping THEN AgentToolMapping[agent_id] ELSE << >>

\* MCPAuthManager.validate_credentials as the server table uses it: a service
\* has usable credentials iff the store knows it and the source supplies them
validate_credentials(e, service) == service \in EnvMappedServices /\ service \in e

\* get_mcp_server_configs: the ids of the servers kept, in table order
get_mcp_server_configs(e) ==
    SelectSeq(ServerOrder,
              LAMBDA sid : /\ ServerEnabledFlag[sid]
                           /\ \/ validate_credentials(e, sid)
                              \/ sid \in NoAuthServers)

\* the dict a sequence of assignments d[k] = v builds: a key stands where it
\* was first assigned and holds the value it was last assigned
DictFromAssignments(pairs) ==
    LET firsts == SelectSeq([ i \in DOMAIN pairs |-> i ],
                      LAMBDA i : \A j \in 1..(i - 1) : pairs[j][1] # pairs[i][1])
        last(k) == CHOOSE i \in DOMAIN pairs :
                      /\ pairs[i][1] = k
                      /\ \A j \in (i + 1)..Len(pairs) : pairs[j][1] # k
    IN  [ n \in DOMAIN firsts |->
            << pairs[firsts[n]][1], pairs[last(pairs[firsts[n]][1])][2] >> ]

\* MCPClient.initialize: for each enabled server in turn, for tool in
\* server.tools: self.tool_to_server[tool] = server_id
build_tool_to_server(server_ids) ==
    DictFromAssignments(
        Flatten([ s \in DOMAIN server_ids |->
                    [ i \in DOMAIN ServerTools[server_ids[s]] |->
                        << ServerTools[server_ids[s]][i], server_ids[s] >> ] ]))

\* MCPClient.get_server_for_tool: tool_to_server.get(tool_name)
get_server_for_tool(t2s, tool_name) ==
    IF DictHas(t2s, tool_name) THEN Some(DictGet(t2s, tool_name)) ELSE None

\* tool_mapping.get(name)
tool_mapping_get(name) ==
    IF DictHas(ToolMappingTable, name) THEN Some(DictGet(ToolMappingTable, name)) ELSE None

----------------------------------------------------------------------------
(* Invocation parser: functions/mcp_function_calling.py                     *)
(*                                                                         *)
(* A text is a sequence of segments.  A segment is one syntactic unit of   *)
(* the model output: prose, or a candidate call in one of the encodings    *)
(* the four regular expressions of FunctionCallParser.patterns recognise.  *)
(* body_ok says whether the argument body is well formed for its encoding; *)
(* args is the dict a well-formed body denotes.  Segments are joined by    *)
(* words of prose, so that no pattern matches across two segments.         *)

\* confidence of each pass, in hundredths
ConfXml == 90
ConfJsonTool == 95
ConfStandard == 80
ConfMarkdown == 70

\* the argument names in use, in the order sort_keys=True puts them
KeyOrder == << "num_results", "query" >>

KeyRank(k) == CHOOSE i \in DOMAIN KeyOrder : KeyOrder[i] = k

\* json.dumps(arguments, sort_keys=True): the pairs in key order
json_dumps_sorted(arguments) ==
    SortSeq(arguments, LAMBDA a, b : KeyRank(a[1]) < KeyRank(b[1]))

ParsedFunctionCall(name, arguments, raw_text, confidence) ==
    [ name |-> name, arguments |-> arguments, raw_text |-> raw_text,
      confidence |-> confidence ]

\* a value of an argument mapping, with its Python type.  The text of a str
\* is a sequence of pieces; the piece ")" is a closing parenthesis, no other
\* piece contains one.  A float is kept as its literal, None as NoneType.
PyValue(type, v) == << type, v >>

\* one key=value part of the body of an inline call as it is written: the
\* key, and the value as how it stands ("quoted" or "bare"), its text, and
\* whether the text reaches its end (its closing quote, when it is quoted)
Part(key, how, text) == << key, << how, text, TRUE >> >>

\* group 2 of patterns['standard'] and patterns['markdown'], ([^)]*): the
\* body from the opening parenthesis to the first closing parenthesis,
\* wherever that one stands
pattern_body(parts) ==
    LET holding == { i \in DOMAIN parts : ")" \in Range(parts[i][2][2]) }
        first == CHOOSE i \in holding : \A j \in holding : i <= j
        text == parts[first][2][2]
        at == CHOOSE k \in DOMAIN text :
                 text[k] = ")" /\ \A l \in 1..(k - 1) : text[l] # ")"
    IN  IF holding = { } THEN parts
        ELSE SubSeq(parts, 1, first - 1)
               \o << << parts[first][1],
                        << parts[first][2][1], SubSeq(text, 1, at - 1), FALSE >> >> >>

\* FunctionCallParser._parse_value on the value of one part.  The bare words
\* of the samples stand for value_str.lower(), int(value_str) and
\* float(value_str): lowered what lower() makes of a word, ints the words
\* int() accepts, floats the words with a '.' that float() accepts.
parse_value(part) ==
    LET quoted == part[2][1] = "quoted"
        text == part[2][2]
        closed == part[2][3]
        word == IF Len(text) = 1 THEN text[1] ELSE ""
        lowered == IF word \in { "True", "true" } THEN "true"
                   ELSE IF word \in { "False", "false" } THEN "false"
                   ELSE IF word \in { "None", "none" } THEN "none"
                   ELSE word
        ints == ("3" :> 3) @@ ("5" :> 5)
        floats == { "3.0" }
    IN  IF quoted /\ (closed \/ text = << >>)
        THEN PyValue("str", IF closed THEN text ELSE << >>)
        ELSE IF quoted
        THEN PyValue("str", << "\"" >> \o text)
        ELSE IF lowered = "true" THEN PyValue("bool", TRUE)
        ELSE IF lowered = "false" THEN PyValue("bool", FALSE)
        ELSE IF lowered \in { "none", "null" } THEN PyValue("NoneType", << >>)
        ELSE IF word \in floats THEN PyValue("float", word)
        ELSE IF word \in DOMAIN ints THEN PyValue("int", ints[word])
        ELSE PyValue("str", text)

\* FunctionCallParser._parse_arguments_string on the parts of a body:
\* json.loads('{' + args_str + '}') raises for a body of key=value parts,
\* and the loop assigns arguments[key] = _parse_value(value) part by part
parse_key_values(parts) ==
    DictFromAssignments([ i \in DOMAIN parts |-> << parts[i][1], parse_value(parts[i]) >> ])

\* FunctionCallParser._parse_arguments_string on the body of an inline call:
\* never raises; a body with no parsable key=value part gives {}
parse_arguments_string(seg) ==
    IF seg.body_ok THEN parse_key_values(pattern_body(seg.args)) ELSE << >>

\* FunctionCallParser._parse_xml_style
parse_xml_style(text, available_tools) ==
    LET hits == SelectSeq(text, LAMBDA s : /\ s.enc = "xml"
                                           /\ s.name \in Range(available_tools)
                                           /\ s.body_ok)
    IN  [ i \in DOMAIN hits |->
            ParsedFunctionCall(hits[i].name, hits[i].args, hits[i], ConfXml) ]

\* FunctionCallParser._parse_json_tool_use
parse_json_tool_use(text, available_tools) ==
    LET hits == SelectSeq(text, LAMBDA s : /\ s.enc = "json_tool"
                                           /\ s.name \in Range(available_tools)
                                           /\ s.body_ok)
    IN  [ i \in DOMAIN hits |->
            ParsedFunctionCall(hits[i].name, hits[i].args, hits[i], ConfJsonTool) ]

\* FunctionCallParser._parse_standard_calls: the pattern name(args) also
\* matches the call written inside a fenced block
parse_standard_calls(text, available_tools) ==
    LET hits == SelectSeq(text, LAMBDA s : /\ s.enc \in { "standard", "markdown" }
                                           /\ s.name \in Range(available_tools))
    IN  [ i \in DOMAIN hits |->
            ParsedFunctionCall(hits[i].name, parse_arguments_string(hits[i]),
                               hits[i], ConfStandard) ]

\* FunctionCallParser._parse_markdown_calls
parse_markdown_calls(text, available_tools) ==
    LET hits == SelectSeq(text, LAMBDA s : /\ s.enc = "markdown"
                                           /\ s.name \in Range(available_tools))
    IN  [ i \in DOMAIN hits |->
            ParsedFunctionCall(hits[i].name, parse_arguments_string(hits[i]),
                               hits[i], ConfMarkdown) ]

\* the four passes in the order parse_llm_response applies them
all_detections(text, available_tools) ==
    parse_xml_style(text, available_tools)
      \o parse_json_tool_use(text, available_tools)
      \o parse_standard_calls(text, available_tools)
      \o parse_markdown_calls(text, available_tools)

\* the key a detection is grouped by
dedup_key(call) == << call.name, json_dumps_sorted(call.arguments) >>

\* a replacement test that prefers the lower confidence
dedup_replaces_lower(call, kept) == call.confidence < kept.confidence

\* the test that lets a detection take its group's place
dedup_replaces(call, kept) == call.confidence > kept.confidence

RECURSIVE dedup_loop(_, _)
\* the loop of _deduplicate_calls over call_groups, a dict keyed by dedup_key
dedup_loop(call_groups, calls) ==
    IF calls = << >> THEN call_groups
    ELSE LET call == Head(calls)
             key == dedup_key(call)
         IN  IF \/ ~DictHas(call_groups, key)
                \/ dedup_replaces(call, DictGet(call_groups, key))
             THEN dedup_loop(DictPut(call_groups, key, call), Tail(calls))
             ELSE dedup_loop(call_groups, Tail(calls))

\* FunctionCallParser._deduplicate_calls
deduplicate_calls(calls) ==
    IF calls = << >> THEN << >> ELSE DictValues(dedup_loop(<< >>, calls))

\* FunctionCallParser.parse_llm_response
parse_llm_response(response, available_tools) ==
    deduplicate_calls(all_detections(response, available_tools))

ToolCall(id, name, parameters) == [ id |-> id, name |-> name, parameters |-> parameters ]

\* FunctionCallParser.create_tool_calls; the uuid of a call is its position
create_tool_calls(parsed_calls) ==
    [ i \in DOMAIN parsed_calls |->
        ToolCall(<< "call", i >>, parsed_calls[i].name, parsed_calls[i].arguments) ]

RECURSIVE gemini_loop(_, _, _)
\* the loop over response.function_calls; dict(fc.args) raises for an args
\* that is no mapping, which ends the loop with the calls built so far
gemini_loop(function_calls, i, tool_calls) ==
    IF i > Len(function_calls) THEN tool_calls
    ELSE LET fc == function_calls[i] IN
         IF fc.args_kind = "not_a_mapping" THEN tool_calls
         ELSE gemini_loop(function_calls, i + 1,
                  Append(tool_calls,
                         ToolCall(<< "gemini_call", i >>, fc.name,
                                  IF fc.args_kind = "mapping" THEN fc.args ELSE << >>)))

\* GeminiFunctionCallHandler.extract_from_gemini_response
extract_from_gemini_response(response) ==
    IF response.function_calls # << >>
    THEN gemini_loop(response.function_calls, 1, << >>)
    ELSE IF response.text # << >>
    THEN create_tool_calls(parse_llm_response(response.text, << >>))
    ELSE << >>

----------------------------------------------------------------------------
(* Results, handlers and the dispatcher: functions/mcp_client.py,          *)
(* functions/mcp_dispatcher.py                                             *)

ToolResult(success, content, error, tool_name, execution_time) ==
    [ tag |-> "ToolResult", success |-> success, content |-> content,
      error |-> error, tool_name |-> tool_name, execution_time |-> execution_time ]

\* a raised exception, carrying str(e)
Exception(msg) == [ tag |-> "Exception", msg |-> msg ]

IsToolResult(r) == r.tag = "ToolResult"

(* What a handler does when awaited: it returns a dict, returns another    *)
(* value, or raises.  A dict is described by what dispatch_tool reads of   *)
(* it: whether it has an "error" key (and its value) and its "success"     *)
(* entry: "absent", or the value True, False or None under the key.        *)
RawReturn(py, has_error, error, success) ==
    [ py |-> py, has_error |-> has_error, error |-> error, success |-> success ]

\* MCPToolDispatcher._not_implemented: {"error": ..., "available_soon": True}
NotImplementedReturn == RawReturn("dict", TRUE, << "not yet implemented" >>, "absent")

\* the behaviours a provider handler is given in the model
HandlerBehaviours ==
    { RawReturn("dict", FALSE, << >>, "True"),
      RawReturn("dict", FALSE, << >>, "absent"),
      RawReturn("dict", TRUE, << "provider error" >>, "absent"),
      RawReturn("dict", FALSE, << >>, "False"),
      RawReturn("dict", FALSE, << >>, "None"),
      RawReturn("other", FALSE, << >>, "absent"),
      RawReturn("raise", FALSE, << "provider raised" >>, "absent") }

\* what awaiting the handler named h can give
BehavioursOf(h) ==
    IF h = "not_implemented" THEN { NotImplementedReturn } ELSE HandlerBehaviours

\* dispatch_tool without the test of the lookup's result: the missing
\* function is called, the TypeError is caught by the except clause
dispatch_tool_begin_no_lookup_test(initialized, tool_call) ==
    IF ~initialized
    THEN Some(ToolResult(FALSE, None, Some(<< "MCP Tool Dispatcher not initialized" >>),
                         Some(tool_call.name), None))
    ELSE IF tool_mapping_get(tool_call.name) = None
    THEN Some(ToolResult(FALSE, None,
                         Some(<< "'NoneType' object is not callable" >>),
                         Some(tool_call.name), Some(0)))
    ELSE None

\* dispatch_tool up to the await of the handler: Some(result) when it returns
\* before calling one, None when the handler is awaited
dispatch_tool_begin(initialized, tool_call) ==
    IF ~initialized
    THEN Some(ToolResult(FALSE, None, Some(<< "MCP Tool Dispatcher not initialized" >>),
                         Some(tool_call.name), None))
    ELSE IF tool_mapping_get(tool_call.name) = None
    THEN Some(ToolResult(FALSE, None,
                         Some(<< "Tool", tool_call.name, "not found. Available tools" >>),
                         Some(tool_call.name), None))
    ELSE None

\* dispatch_tool with its except clause taken away: what the handler raises
\* leaves the function
dispatch_tool_end_no_except(tool_call, raw, elapsed) ==
    IF raw.py = "raise"
    THEN Exception(raw.error)
    ELSE IF raw.py = "dict"
    THEN IF raw.success \in { "absent", "True" } /\ ~raw.has_error
         THEN ToolResult(TRUE, Some(raw), None, Some(tool_call.name), Some(elapsed))
         ELSE ToolResult(FALSE, Some(raw),
                         Some(IF raw.has_error THEN raw.error ELSE << "Unknown error" >>),
                         Some(tool_call.name), Some(elapsed))
    ELSE ToolResult(TRUE, Some(raw), None, Some(tool_call.name), Some(elapsed))

\* dispatch_tool with a classification that reads the "success" entry only
\* and not the presence of an "error" key
dispatch_tool_end_success_only(tool_call, raw, elapsed) ==
    IF raw.py = "raise"
    THEN ToolResult(FALSE, None, Some(raw.error), Some(tool_call.name), Some(elapsed))
    ELSE IF raw.py = "dict" /\ raw.success \notin { "absent", "True" }
    THEN ToolResult(FALSE, Some(raw),
                    Some(IF raw.has_error THEN raw.error ELSE << "Unknown error" >>),
                    Some(tool_call.name), Some(elapsed))
    ELSE ToolResult(TRUE, Some(raw), None, Some(tool_call.name), Some(elapsed))

\* dispatch_tool from the handler's return or raise on: the classification
\* of the value, and the except clause
dispatch_tool_end(tool_call, raw, elapsed) ==
    IF raw.py = "raise"
    THEN ToolResult(FALSE, None, Some(raw.error), Some(tool_call.name), Some(elapsed))
    ELSE IF raw.py = "dict"
    THEN IF raw.success \in { "absent", "True" } /\ ~raw.has_error
         THEN ToolResult(TRUE, Some(raw), None, Some(tool_call.name), Some(elapsed))
         ELSE ToolResult(FALSE, Some(raw),
                         Some(IF raw.has_error THEN raw.error ELSE << "Unknown error" >>),
                         Some(tool_call.name), Some(elapsed))
    ELSE ToolResult(TRUE, Some(raw), None, Some(tool_call.name), Some(elapsed))

\* MCPToolDispatcher.dispatch_batch after gather: an exception in a slot
\* becomes a failed result for that slot's call
dispatch_batch_end(tool_calls, results) ==
    [ i \in DOMAIN results |->
        IF results[i].tag = "Exception"
        THEN ToolResult(FALSE, None, Some(results[i].msg), Some(tool_calls[i].name), None)
        ELSE results[i] ]

\* MCPClient._call_mcp_server: the dispatcher's result, an exception made a
\* failed result with no tool name
call_mcp_server(dispatched) ==
    IF dispatched.tag = "Exception"
    THEN ToolResult(FALSE, None, Some(dispatched.msg), None, None)
    ELSE dispatched

\* an execute_tool that hands every call to the dispatcher, whether a server
\* lists its name or not
execute_tool_begin_no_lookup(t2s, tool_call) == None

\* MCPClient.execute_tool up to the call of the dispatcher: Some(result) when
\* the tool is in no server, None otherwise
execute_tool_begin(t2s, tool_call) ==
    IF get_server_for_tool(t2s, tool_call.name) = None
    THEN Some(ToolResult(FALSE, None,
                         Some(<< "Tool", tool_call.name, "not found in any server" >>),
                         Some(tool_call.name), None))
    ELSE None

\* MCPClient.execute_tool from the dispatcher's result on: the name and the
\* duration are written into the result
execute_tool_end(tool_call, dispatched, elapsed) ==
    [ call_mcp_server(dispatched) EXCEPT !.execution_time = Some(elapsed),
                                         !.tool_name = Some(tool_call.name) ]

\* the outcomes collected as the tasks complete, instead of by task
gather_as_completed(outcomes, completion) ==
    [ k \in DOMAIN completion |-> outcomes[completion[k]] ]

\* results = await asyncio.gather(*tasks, return_exceptions=True): the tasks'
\* outcomes in the order of the tasks, whatever order they completed in
gather_results(outcomes, completion) == outcomes

\* MCPClient.batch_execute after gather: an exception in a slot becomes a
\* failed result for that slot's call
batch_execute_end(tool_calls, results) ==
    [ i \in DOMAIN results |->
        IF results[i].tag = "Exception"
        THEN ToolResult(FALSE, None, Some(results[i].msg), Some(tool_calls[i].name), None)
        ELSE results[i] ]

----------------------------------------------------------------------------
(* Orchestrator: functions/mcp_tool_executor.py                            *)

\* the failed result execute_tools gives a call the agent may not make
unauthorized_result(call, agent_id) ==
    ToolResult(FALSE, None,
               Some(<< "Tool", call.name, "not available for agent", agent_id >>),
               Some(call.name), None)

\* a validation loop that lets every call through
is_authorized_always(call, available_tools) == TRUE

\* call.name in available_tools
is_authorized(call, available_tools) == call.name \in Range(available_tools)

\* execute_tools, the validation loop: the calls kept for execution
validated_calls(tool_calls, agent_id) ==
    SelectSeq(tool_calls, LAMBDA c : is_authorized(c, get_tools_for_agent(agent_id)))

\* a validation loop that drops the calls the agent may not make without a
\* result for them
rejected_results_unreported(tool_calls, agent_id) == << >>

\* execute_tools, the validation loop: the results appended for the others
rejected_results(tool_calls, agent_id) ==
    LET dropped == SelectSeq(tool_calls,
                       LAMBDA c : ~is_authorized(c, get_tools_for_agent(agent_id)))
    IN  [ i \in DOMAIN dropped |-> unauthorized_result(dropped[i], agent_id) ]

\* execute_tools, the except clause: an error result for every call
error_results(tool_calls, msg) ==
    [ i \in DOMAIN tool_calls |->
        ToolResult(FALSE, None, Some(msg), Some(tool_calls[i].name), None) ]

\* format_tool_result_for_llm: the rendered entry of one result; formatting
\* the duration with :.2f raises TypeError when execution_time is None
format_tool_result_for_llm(result) ==
    IF result.execution_time = None
    THEN Exception(<< "unsupported format string passed to NoneType.__format__" >>)
    ELSE [ tag |-> "entry", tool_name |-> result.tool_name, success |-> result.success,
           duration |-> result.execution_time,
           content |-> IF result.success THEN result.content ELSE None,
           error |-> IF result.success THEN None ELSE result.error ]

\* format_multiple_results_for_llm: "" for no result, else the entries joined;
\* an exception of one entry propagates
format_multiple_results_for_llm(results) ==
    LET formatted == [ i \in DOMAIN results |-> format_tool_result_for_llm(results[i]) ]
    IN  IF \E i \in DOMAIN formatted : formatted[i].tag = "Exception"
        THEN formatted[CHOOSE i \in DOMAIN formatted :
                          /\ formatted[i].tag = "Exception"
                          /\ \A j \in 1..(i - 1) : formatted[j].tag # "Exception"]
        ELSE [ tag |-> "text", entries |-> formatted ]

\* an enhanced response that is the results block in the place of the text
combine_response_block_only(llm_response, tool_results_text) ==
    IF tool_results_text.entries # << >>
    THEN << [ enc |-> "tool_results", entries |-> tool_results_text.entries ] >>
    ELSE llm_response

\* the enhanced response: the original text, and the results block appended
\* when it is not empty
combine_response(llm_response, tool_results_text) ==
    IF tool_results_text.entries # << >>
    THEN llm_response \o << [ enc |-> "tool_results", entries |-> tool_results_text.entries ] >>
    ELSE llm_response

\* what process_llm_response returns to its caller
Returned(text, results) == [ tag |-> "return", text |-> text, results |-> results ]

RECURSIVE sum_execution_time(_)
\* sum(r.execution_time or 0 for r in results)
sum_execution_time(results) ==
    IF results = << >> THEN 0
    ELSE (IF Head(results).execution_time = None THEN 0
          ELSE Head(results).execution_time[1])
         + sum_execution_time(Tail(results))

\* sum(1 for r in results if r.success)
count_successful(results) == Cardinality({ i \in DOMAIN results : results[i].success })

\* sum(1 for r in results if not r.success)
count_failed(results) == Cardinality({ i \in DOMAIN results : ~results[i].success })

\* the counters if the task were suspended after the first of the four
\* additions
update_stats_total_only(stats, tool_calls, results) ==
    [ stats EXCEPT !.total_executions = @ + Len(tool_calls) ]

\* the additions with the failures left uncounted
update_stats_without_failed(stats, tool_calls, results) ==
    [ total_executions |-> stats.total_executions + Len(tool_calls),
      successful_executions |->
          stats.successful_executions
            + Cardinality({ i \in DOMAIN results : results[i].success }),
      failed_executions |-> stats.failed_executions,
      total_execution_time |-> stats.total_execution_time ]

\* the counters after the "Update stats" statements
update_stats(stats, tool_calls, results) ==
    [ total_executions |-> stats.total_executions + Len(tool_calls),
      successful_executions |->
          stats.successful_executions + count_successful(results),
      failed_executions |->
          stats.failed_executions + count_failed(results),
      total_execution_time |->
          stats.total_execution_time + sum_execution_time(results) ]

\* process_llm_response with its except clause taken away
process_llm_response_end_no_except(llm_response, results) ==
    LET tool_results_text == format_multiple_results_for_llm(results) IN
    IF tool_results_text.tag = "Exception"
    THEN tool_results_text
    ELSE Returned(combine_response(llm_response, tool_results_text), results)

\* process_llm_response from the return of execute_tools on: format, combine,
\* and the except clause, which returns the original text and no outcome
process_llm_response_end(llm_response, results) ==
    LET tool_results_text == format_multiple_results_for_llm(results) IN
    IF tool_results_text.tag = "Exception"
    THEN Returned(llm_response, << >>)
    ELSE Returned(combine_response(llm_response, tool_results_text), results)

----------------------------------------------------------------------------
(* Inputs of the model *)

\* the configuration sources tried: which services have their credentials
CredentialScenarios == { { }, { "google_drive", "slack" } }

\* agent ids: two configured agents and one that has no entry
AgentIds == { "posiAgent", "minutaMaker", "ghostAgent" }

ArgsQuery == << << "query", PyValue("str", << "x" >>) >> >>
ArgsQueryNum == << << "query", PyValue("str", << "x" >>) >>, << "num_results", PyValue("int", 3) >> >>
ArgsNumQuery == << << "num_results", PyValue("int", 3) >>, << "query", PyValue("str", << "x" >>) >> >>

\* the same mappings as the body of an inline call writes them:
\* query="x" and num_results=3, query="x"
BodyQuery == << Part("query", "quoted", << "x" >>) >>
BodyNumQuery == << Part("num_results", "bare", << "3" >>), Part("query", "quoted", << "x" >>) >>

Segment(enc, name, body_ok, args) ==
    [ enc |-> enc, name |-> name, body_ok |-> body_ok, args |-> args ]

Prose == Segment("prose", "", TRUE, << >>)

\* a function call of the model runtime: args is a mapping, is absent, or is
\* a value dict() does not accept
FunctionCall(name, args_kind, args) ==
    [ name |-> name, args_kind |-> args_kind, args |-> args ]

\* the natively structured invocations a turn's list is drawn from
NativeSamples ==
    { FunctionCall("web_search", "mapping", ArgsQuery),
      FunctionCall("search_files", "no_attribute", << >>),
      FunctionCall("upload_file", "mapping", ArgsQuery),
      FunctionCall("delete_universe", "mapping", ArgsQuery),
      FunctionCall("web_search", "not_a_mapping", << >>) }

\* the model outputs tried by a turn
TextSamples ==
    { << Prose >>,
      << Prose, Segment("standard", "web_search", TRUE, BodyQuery) >>,
      << Segment("standard", "web_search", TRUE, BodyQuery),
         Segment("xml", "web_search", TRUE, ArgsQuery) >>,
      << Segment("standard", "web_search", TRUE, BodyQuery),
         Segment("json_tool", "search_files", TRUE, ArgsQueryNum) >>,
      << Segment("standard", "delete_universe", TRUE, BodyQuery),
         Segment("xml", "web_search", FALSE, << >>) >>,
      << Segment("xml", "upload_file", TRUE, ArgsQuery),
         Segment("markdown", "list_events", TRUE, << >>) >> }

\* the segments a text handed to the parser on its own is drawn from
SegmentSamples ==
    { Segment("standard", "web_search", TRUE, BodyQuery),
      Segment("xml", "web_search", TRUE, ArgsQuery),
      Segment("json_tool", "web_search", TRUE, ArgsQueryNum),
      Segment("markdown", "web_search", TRUE, BodyNumQuery),
      Segment("standard", "search_files", TRUE, BodyQuery),
      Segment("xml", "web_search", FALSE, << >>),
      Segment("standard", "search_files", FALSE, << >>),
      Segment("json_tool", "delete_universe", TRUE, ArgsQuery) }

\* the allowed-name lists the parser is tried with
AllowedSamples == { << "web_search", "search_files" >>, << "search_files" >> }

\* the calls a list handed to batch_execute or dispatch_batch directly is
\* drawn from: a tool with a provider handler, an alias of it, a tool that
\* only has the not-implemented handler, and a tool nothing knows
CallSamples ==
    { ToolCall(<< "direct", "web_search" >>, "web_search", ArgsQuery),
      ToolCall(<< "direct", "search_web" >>, "search_web", ArgsQuery),
      ToolCall(<< "direct", "list_events" >>, "list_events", << >>),
      ToolCall(<< "direct", "nonexistent_tool" >>, "nonexistent_tool", << >>) }

----------------------------------------------------------------------------
(* Credential manager (mcp_auth.py).  A string read from the environment   *)
(* is the pair << "env", NAME >>, an access token issued by the token      *)
(* endpoint is << "token", n >>, the n-th it has issued; the empty string  *)
(* is << >>.  Time is counted in hours.                                    *)

\* MCPAuthManager._load_env_mapping
env_mapping ==
    << << "github", << << "api_key", "GITHUB_TOKEN" >>,
                       << "api_url", "GITHUB_API_URL" >> >> >>,
       << "google_drive", << << "credentials_path", "GOOGLE_DRIVE_CREDENTIALS_PATH" >>,
                             << "client_id", "GOOGLE_CLIENT_ID" >>,
                             << "client_secret", "GOOGLE_CLIENT_SECRET" >>,
                             << "refresh_token", "GOOGLE_REFRESH_TOKEN" >> >> >>,
       << "jira", << << "api_key", "JIRA_API_TOKEN" >>,
                     << "username", "JIRA_USERNAME" >>,
                     << "url", "JIRA_URL" >> >> >>,
       << "slack", << << "bot_token", "SLACK_BOT_TOKEN" >>,
                      << "app_token", "SLACK_APP_TOKEN" >>,
                      << "user_token", "SLACK_USER_TOKEN" >> >> >>,
       << "linear", << << "api_key", "LINEAR_API_KEY" >> >> >>,
       << "notion", << << "api_key", "NOTION_API_KEY" >> >> >> >>

\* timedelta(hours=1), the life of the credential loaded for google_drive
LoadedLifetime == 1

\* token_data.get('expires_in', 3600) seconds, the life of a refreshed token
RefreshedLifetime == 1

APIKeyCredentials(service, api_key, created_at) ==
    [ type |-> "APIKeyCredentials", service |-> service, created_at |-> created_at,
      expires_at |-> None, api_key |-> api_key ]

OAuthCredentials(service, access_token, refresh_token, created_at, expires_at) ==
    [ type |-> "OAuthCredentials", service |-> service, created_at |-> created_at,
      expires_at |-> expires_at, access_token |-> access_token,
      refresh_token |-> refresh_token, token_type |-> "Bearer" ]

BasicAuthCredentials(service, username, password, created_at) ==
    [ type |-> "BasicAuthCredentials", service |-> service, created_at |-> created_at,
      expires_at |-> None, username |-> username, password |-> password ]

\* Credentials.is_expired at time t
is_expired(creds, t) ==
    IF creds.expires_at = None THEN FALSE ELSE t >= creds.expires_at[1]

\* get_headers of the three credential classes
get_headers(creds) ==
    IF creds.type = "APIKeyCredentials"
    THEN << << "Authorization", << "Bearer", creds.api_key >> >> >>
    ELSE IF creds.type = "OAuthCredentials"
    THEN << << "Authorization", << creds.token_type, creds.access_token >> >> >>
    ELSE << << "Authorization",
               << "Basic", << "b64", creds.username, creds.password >> >> >> >>

\* os.getenv(name, default) with a default that stands in for the secret
getenv_with_default(e, name) ==
    IF name \in e.vars THEN Some(<< "env", name >>) ELSE Some(<< "default", name >>)

\* os.getenv(name) where the result is tested for truth: Some(value) when the
\* variable is set to a non-empty string, None otherwise
getenv(e, name) ==
    IF name \in e.vars THEN Some(<< "env", name >>) ELSE None

\* MCPAuthManager._load_credentials_from_env at time t
load_credentials_from_env(e, service, t) ==
    IF ~DictHas(env_mapping, service) THEN None
    ELSE LET env_vars == DictGet(env_mapping, service) IN
    IF service = "github"
    THEN LET api_key == getenv(e, DictGet(env_vars, "api_key"))
         IN  IF api_key # None
             THEN Some(APIKeyCredentials(service, api_key[1], t))
             ELSE None
    ELSE IF service = "google_drive"
    THEN LET client_id == getenv(e, DictGet(env_vars, "client_id"))
             client_secret == getenv(e, DictGet(env_vars, "client_secret"))
             refresh_token == getenv(e, DictGet(env_vars, "refresh_token"))
             creds_path == getenv(e, DictGet(env_vars, "credentials_path"))
         IN  IF client_id # None /\ client_secret # None /\ refresh_token # None
             THEN Some(OAuthCredentials(service, << >>, refresh_token, t,
                                        Some(t + LoadedLifetime)))
             ELSE IF creds_path # None /\ creds_path[1] \in e.paths
             THEN Some(APIKeyCredentials(service, creds_path[1], t))
             ELSE None
    ELSE IF service = "jira"
    THEN LET username == getenv(e, DictGet(env_vars, "username"))
             api_token == getenv(e, DictGet(env_vars, "api_key"))
         IN  IF username # None /\ api_token # None
             THEN Some(BasicAuthCredentials(service, username[1], api_token[1], t))
             ELSE None
    ELSE IF service = "slack"
    THEN LET bot_token == getenv(e, DictGet(env_vars, "bot_token"))
         IN  IF bot_token # None
             THEN Some(APIKeyCredentials(service, bot_token[1], t))
             ELSE None
    ELSE IF service \in { "linear", "notion" }
    THEN LET api_key == getenv(e, DictGet(env_vars, "api_key"))
         IN  IF api_key # None
             THEN Some(APIKeyCredentials(service, api_key[1], t))
             ELSE None
    ELSE None

\* credentials_cache.get(service)
cache_entry(cache, service) ==
    IF DictHas(cache, service) THEN Some(DictGet(cache, service)) ELSE None

\* a get_credentials that returns the cached entry without looking at its
\* expiry
get_credentials_unchecked(cache, e, service, t) ==
    IF DictHas(cache, service)
    THEN [ ret |-> Some(DictGet(cache, service)), cache |-> cache ]
    ELSE LET creds == load_credentials_from_env(e, service, t)
         IN  IF creds # None
             THEN [ ret |-> creds, cache |-> DictPut(cache, service, creds[1]) ]
             ELSE [ ret |-> None, cache |-> cache ]

\* MCPAuthManager.get_credentials at time t: the value returned and the cache
\* it leaves
get_credentials(cache, e, service, t) ==
    IF DictHas(cache, service) /\ ~is_expired(DictGet(cache, service), t)
    THEN [ ret |-> Some(DictGet(cache, service)), cache |-> cache ]
    ELSE LET creds == load_credentials_from_env(e, service, t)
         IN  IF creds # None
             THEN [ ret |-> creds, cache |-> DictPut(cache, service, creds[1]) ]
             ELSE [ ret |-> None, cache |-> cache ]

\* MCPAuthManager.validate_credentials at time t, on the manager's cache
validate_cached_credentials(cache, e, service, t) ==
    LET got == get_credentials(cache, e, service, t)
    IN  [ ret |-> IF got.ret = None THEN FALSE ELSE ~is_expired(got.ret[1], t),
          cache |-> got.cache ]

\* MCPAuthManager.get_auth_headers at time t
get_auth_headers(cache, e, service, t) ==
    LET got == get_credentials(cache, e, service, t)
    IN  [ ret |-> IF got.ret = None THEN << >> ELSE get_headers(got.ret[1]),
          cache |-> got.cache ]

\* credentials_cache.pop(service, None)
dict_pop(d, k) == SelectSeq(d, LAMBDA kv : kv[1] # k)

\* MCPAuthManager.clear_cache: a falsy argument (None, or the empty string)
\* clears the whole cache
clear_cache(cache, service) ==
    IF service # None THEN dict_pop(cache, service[1]) ELSE << >>

\* one entry of the dict get_credential_status returns
credential_status_entry(got, t) ==
    IF got # None
    THEN [ available |-> TRUE, type |-> Some(got[1].type),
           expires_at |-> got[1].expires_at,
           is_expired |-> Some(is_expired(got[1], t)),
           created_at |-> Some(got[1].created_at) ]
    ELSE [ available |-> FALSE, type |-> None, expires_at |-> None,
           is_expired |-> None, created_at |-> None ]

RECURSIVE credential_status_loop(_, _, _, _, _)
\* the loop of get_credential_status from the k-th service of env_mapping on
credential_status_loop(k, status, cache, e, t) ==
    IF k > Len(env_mapping) THEN [ ret |-> status, cache |-> cache ]
    ELSE LET service == env_mapping[k][1]
             got == get_credentials(cache, e, service, t)
         IN  credential_status_loop(k + 1,
                 Append(status, << service, credential_status_entry(got.ret, t) >>),
                 got.cache, e, t)

\* MCPAuthManager.get_credential_status at time t
get_credential_status(cache, e, t) == credential_status_loop(1, << >>, cache, e, t)

\* refresh_oauth_token and _refresh_google_token up to requests.post: the
\* cache get_credentials leaves, and whether the request is sent or False is
\* returned before it
refresh_begin(cache, e, service, t) ==
    LET got == get_credentials(cache, e, service, t)
        sent == /\ got.ret # None
                /\ got.ret[1].type = "OAuthCredentials"
                /\ got.ret[1].refresh_token # None
                /\ service = "google_drive"
                /\ getenv(e, "GOOGLE_CLIENT_ID") # None
                /\ getenv(e, "GOOGLE_CLIENT_SECRET") # None
    IN  [ cache |-> got.cache, sent |-> sent ]

\* what requests.post can give: an exception, a status other than 200, a 200
\* with the n-th token, and a 200 whose expires_in is not a number
TokenResponses(n) ==
    { [ status |-> "raise", access_token |-> None, expires_in |-> "absent" ],
      [ status |-> "500", access_token |-> None, expires_in |-> "absent" ],
      [ status |-> "200", access_token |-> Some(<< "token", n >>), expires_in |-> "number" ],
      [ status |-> "200", access_token |-> Some(<< "token", n >>),
        expires_in |-> "not_a_number" ] }

\* _refresh_google_token from the response on, at time t: the value returned
\* and the assignments made to the credential object on the way (Some(v)
\* for an attribute assigned v, None for one left alone)
refresh_google_token_end(response, t) ==
    IF response.status # "200"
    THEN [ ret |-> FALSE, access_token |-> None, expires_at |-> None ]
    ELSE IF response.access_token = None
    THEN [ ret |-> FALSE, access_token |-> None, expires_at |-> None ]
    ELSE IF response.expires_in = "not_a_number"
    THEN [ ret |-> FALSE, access_token |-> response.access_token, expires_at |-> None ]
    ELSE [ ret |-> TRUE, access_token |-> response.access_token,
           expires_at |-> Some(Some(t + RefreshedLifetime)) ]

\* the credential object after the assignments
assigned(creds, r) ==
    [ creds EXCEPT !.access_token = IF r.access_token = None THEN @ ELSE r.access_token[1],
                   !.expires_at = IF r.expires_at = None THEN @ ELSE r.expires_at[1] ]

\* the cache if a refresh stored its result as an entry of its own
store_refreshed_as_new_entry(cache, service, r) ==
    Append(cache, << service, assigned(DictGet(cache, service), r) >>)

\* the cache once the cached object of the service has been assigned to
store_refreshed(cache, service, r) ==
    DictPut(cache, service, assigned(DictGet(cache, service), r))

\* the callers of refresh_oauth_token
Callers == { 1, 2 }

\* had_entry: the cache held an entry for the service when the call began;
\* changed: the call has changed the cache
IdleRefresh ==
    [ pc |-> "idle", service |-> "", had_entry |-> FALSE, attached |-> FALSE,
      response |-> None, changed |-> FALSE, ret |-> FALSE ]

\* expired: the cache entry of the service had expired when the call began;
\* cached: the cache held an entry for the service when the call returned
NoCall ==
    [ op |-> "none", service |-> None, expired |-> FALSE, cached |-> FALSE,
      ret |-> None ]

\* a refresh waiting for or holding the token endpoint's answer works on the
\* object it got from the cache; once the entry of its service is replaced
\* or removed, that object is no longer the cached one
detach(tasks, cache, cache2) ==
    [ c \in DOMAIN tasks |->
        IF /\ tasks[c].pc \in { "posted", "responded" }
           /\ cache_entry(cache, tasks[c].service) # cache_entry(cache2, tasks[c].service)
        THEN [ tasks[c] EXCEPT !.attached = FALSE ]
        ELSE tasks[c] ]

\* the credential manager when nothing uses it
AuthUnused ==
    /\ environ = [ vars |-> { }, paths |-> { } ]
    /\ credentials_cache = << >>
    /\ now = 0
    /\ auth_ret = NoCall
    /\ refresh_task = [ c \in Callers |-> IdleRefresh ]
    /\ issued = 0

----------------------------------------------------------------------------
(* State machine *)

ZeroStats ==
    [ total_executions |-> 0, successful_executions |-> 0,
      failed_executions |-> 0, total_execution_time |-> 0 ]

(* The record of one task.  kind is the entry point it runs:               *)
(* process_llm_response, batch_execute or dispatch_batch.  validated holds *)
(* the calls handed on for execution, slots one record per such call,      *)
(* completion the order in which the slots resolved, batch what the batch  *)
(* function returned (None when none was called), ret what                 *)
(* process_llm_response returned, round the number of calls of             *)
(* process_llm_response that returned before this one, mcp_client whether  *)
(* the executor called holds a client.                                     *)
IdleTurn ==
    [ pc |-> "idle", round |-> 0, kind |-> "", agent_id |-> "", llm_response |-> << >>,
      native |-> << >>, stats0 |-> ZeroStats, dispatcher_initialized |-> TRUE,
      mcp_client |-> TRUE,
      text_parsed |-> FALSE, tool_calls |-> << >>, executing |-> FALSE,
      validated |-> << >>, results |-> << >>, slots |-> << >>,
      completion |-> << >>, batch |-> None, ret |-> None ]

\* one call in flight: the handler awaited (None when none is), what the
\* handler did, what dispatch_tool returned, what the entry point's per-call
\* function returned
Slot(state, handler, raw, dispatched, result) ==
    [ state |-> state, handler |-> handler, raw |-> raw,
      dispatched |-> dispatched, result |-> result ]

\* one call handed to MCPClient.execute_tool, run to its first suspension
begin_slot(t2s, tool_call) ==
    LET early == execute_tool_begin(t2s, tool_call)
        d == dispatch_tool_begin(TRUE, tool_call)
    IN  IF early # None THEN Slot("done", None, None, None, early)
        ELSE IF d # None
        THEN Slot("done", None, None, d, Some(execute_tool_end(tool_call, d[1], 0)))
        ELSE Slot("awaiting", tool_mapping_get(tool_call.name), None, None, None)

\* one call handed to MCPToolDispatcher.dispatch_tool, run to its first
\* suspension
begin_dispatch_slot(initialized, tool_call) ==
    LET d == dispatch_tool_begin(initialized, tool_call)
    IN  IF d # None THEN Slot("done", None, None, d, d)
        ELSE Slot("awaiting", tool_mapping_get(tool_call.name), None, None, None)

\* a fan-out in which a raising handler takes the tasks still waiting down
\* with it
resolve_slot_aborting(slots, i, kind, tool_call, raw) ==
    LET d == dispatch_tool_end(tool_call, raw, 1)
        r == IF kind = "dispatch_batch" THEN d ELSE execute_tool_end(tool_call, d, 1)
    IN  [ j \in DOMAIN slots |->
            IF j = i THEN Slot("done", slots[j].handler, Some(raw), Some(d), Some(r))
            ELSE IF raw.py = "raise" /\ slots[j].state = "awaiting"
            THEN Slot("done", slots[j].handler, None, None,
                      Some(ToolResult(FALSE, None, Some(<< "cancelled" >>), None, None)))
            ELSE slots[j] ]

\* the task of slot i resumes with what its handler did and runs to its
\* return; the other tasks are left as they are
resolve_slot(slots, i, kind, tool_call, raw) ==
    LET d == dispatch_tool_end(tool_call, raw, 1)
        r == IF kind = "dispatch_batch" THEN d ELSE execute_tool_end(tool_call, d, 1)
    IN  [ slots EXCEPT ![i] = Slot("done", @.handler, Some(raw), Some(d), Some(r)) ]

\* the positions of the slots that are done, in increasing order
done_positions(slots) ==
    SelectSeq([ i \in DOMAIN slots |-> i ], LAMBDA i : slots[i].state = "done")

\* what the tasks of the slots returned, in the order of the tasks
slot_outcomes(slots) == [ i \in DOMAIN slots |-> slots[i].result[1] ]

Init ==
    /\ env \in CredentialScenarios
    /\ executor = [ created |-> FALSE, initialized |-> FALSE ]
    /\ tool_to_server = << >>
    /\ execution_stats = ZeroStats
    /\ turn = [ t \in { 1 } |-> IdleTurn ]
    /\ parse_in = [ text |-> << >>, allowed |-> << >> ]
    /\ parse_out = [ done |-> FALSE, detections |-> << >>, calls |-> << >> ]
    /\ AuthUnused

\* a get_tool_executor that initialises again an executor whose
\* initialisation has failed
GetToolExecutorRetrying(ok) ==
    /\ ~executor.initialized
    /\ executor' = [ created |-> TRUE, initialized |-> ok ]
    /\ tool_to_server' = IF ok THEN build_tool_to_server(get_mcp_server_configs(env))
                         ELSE tool_to_server
    /\ UNCHANGED << env, execution_stats, turn, parse_in, parse_out, auth_vars >>

\* get_tool_executor when the global is None: the executor is created and
\* initialised once; initialisation succeeds, or an exception makes it fail
GetToolExecutor(ok) ==
    /\ ~executor.created
    /\ executor' = [ created |-> TRUE, initialized |-> ok ]
    /\ tool_to_server' = IF ok THEN build_tool_to_server(get_mcp_server_configs(env))
                         ELSE tool_to_server
    /\ UNCHANGED << env, execution_stats, turn, parse_in, parse_out, auth_vars >>

\* execute_tools from the results of the dispatched calls on, then the rest
\* of process_llm_response: the record of the turn and the counters after it
finish_turn(tr, stats) ==
    LET outcomes == slot_outcomes(tr.slots)
        batch == IF Len(tr.validated) > 1
                 THEN Some(batch_execute_end(tr.validated,
                                             gather_results(outcomes, tr.completion)))
                 ELSE None
        results ==
            IF tr.validated = << >> THEN tr.results
            ELSE IF Len(tr.validated) = 1
            THEN IF outcomes[1].tag = "Exception"
                 THEN error_results(tr.tool_calls, outcomes[1].msg)
                 ELSE tr.results \o outcomes
            ELSE tr.results \o batch[1]
    IN  [ turn |-> [ tr EXCEPT !.pc = "done", !.results = results, !.batch = batch,
                               !.ret = Some(process_llm_response_end(tr.llm_response,
                                                                     results)) ],
          stats |-> update_stats(stats, tr.tool_calls, results) ]

\* batch_execute or dispatch_batch from the return of gather on
finish_batch(tr) ==
    LET gathered == gather_results(slot_outcomes(tr.slots), tr.completion)
    IN  [ tr EXCEPT !.pc = "done",
                    !.batch = Some(IF tr.kind = "dispatch_batch"
                                   THEN dispatch_batch_end(tr.validated, gathered)
                                   ELSE batch_execute_end(tr.validated, gathered)) ]

\* execute_tools, called on its own, from the results of the dispatched
\* calls on: nothing is rendered and no counter is read or written
finish_execute_tools(tr) ==
    [ finish_turn(tr, ZeroStats).turn EXCEPT !.ret = None ]

\* a pass-through that appends an empty results block to the text
pass_through_with_block(tr) ==
    [ tr EXCEPT !.pc = "done",
                !.ret = Some(Returned(tr.llm_response
                                        \o << [ enc |-> "tool_results", entries |-> << >> ] >>,
                                      << >>)) ]

\* a turn that returns the model output as it is
pass_through(tr) ==
    [ tr EXCEPT !.pc = "done", !.ret = Some(Returned(tr.llm_response, << >>)) ]

\* the function calls taken from the model runtime's response and, when there
\* are none, from the text
extract_tool_calls(gemini_response, llm_response, available_tools) ==
    LET native == IF gemini_response.present
                  THEN extract_from_gemini_response(gemini_response) ELSE << >>
    IN  IF native # << >>
        THEN [ text_parsed |-> FALSE, tool_calls |-> native ]
        ELSE [ text_parsed |-> TRUE,
               tool_calls |-> create_tool_calls(
                                  parse_llm_response(llm_response, available_tools)) ]

\* process_llm_response from its call to its first suspension or its return
ProcessLLMResponse(t, agent_id, llm_response, gemini_response) ==
    /\ executor.created
    /\ turn[t].pc = "idle"
    /\ LET tr0 == [ IdleTurn EXCEPT !.round = turn[t].round,
                                     !.kind = "process_llm_response",
                                     !.agent_id = agent_id,
                                     !.llm_response = llm_response,
                                     !.native = gemini_response.function_calls,
                                     !.stats0 = execution_stats ]
           available_tools == get_tools_for_agent(agent_id)
           ex == extract_tool_calls(gemini_response, llm_response, available_tools)
           tr1 == [ tr0 EXCEPT !.text_parsed = ex.text_parsed,
                               !.tool_calls = ex.tool_calls ]
           validated == validated_calls(ex.tool_calls, agent_id)
           slots == [ i \in DOMAIN validated |-> begin_slot(tool_to_server, validated[i]) ]
           tr2 == [ tr1 EXCEPT !.executing = TRUE,
                               !.validated = validated,
                               !.results = rejected_results(ex.tool_calls, agent_id),
                               !.slots = slots,
                               !.completion = done_positions(slots) ]
       IN  IF ~executor.initialized \/ available_tools = << >>
           THEN /\ turn' = [ turn EXCEPT ![t] = pass_through(tr0) ]
                /\ UNCHANGED execution_stats
           ELSE IF ex.tool_calls = << >>
           THEN /\ turn' = [ turn EXCEPT ![t] = pass_through(tr1) ]
                /\ UNCHANGED execution_stats
           ELSE IF \A i \in DOMAIN slots : slots[i].state = "done"
           THEN LET fin == finish_turn(tr2, execution_stats) IN
                /\ turn' = [ turn EXCEPT ![t] = fin.turn ]
                /\ execution_stats' = fin.stats
           ELSE /\ turn' = [ turn EXCEPT ![t] = [ tr2 EXCEPT !.pc = "awaiting" ] ]
                /\ UNCHANGED execution_stats
    /\ UNCHANGED << env, executor, tool_to_server, parse_in, parse_out, auth_vars >>

\* MCPClient.batch_execute called with a list of calls, to its first
\* suspension or its return
BatchExecute(t, tool_calls) ==
    /\ executor.created
    /\ turn[t].pc = "idle"
    /\ LET slots == [ i \in DOMAIN tool_calls |-> begin_slot(tool_to_server, tool_calls[i]) ]
           tr == [ IdleTurn EXCEPT !.round = turn[t].round,
                                    !.kind = "batch_execute",
                                    !.validated = tool_calls,
                                    !.slots = slots,
                                    !.completion = done_positions(slots) ]
       IN  turn' = [ turn EXCEPT ![t] =
                       IF \A i \in DOMAIN slots : slots[i].state = "done"
                       THEN finish_batch(tr)
                       ELSE [ tr EXCEPT !.pc = "awaiting" ] ]
    /\ UNCHANGED << env, executor, tool_to_server, execution_stats, parse_in, parse_out, auth_vars >>

\* MCPToolDispatcher.dispatch_batch called with a list of calls on a
\* dispatcher that has or has not been initialised
DispatchBatch(t, initialized, tool_calls) ==
    /\ executor.created
    /\ turn[t].pc = "idle"
    /\ LET slots == [ i \in DOMAIN tool_calls |->
                        begin_dispatch_slot(initialized, tool_calls[i]) ]
           tr == [ IdleTurn EXCEPT !.round = turn[t].round,
                                    !.kind = "dispatch_batch",
                                    !.dispatcher_initialized = initialized,
                                    !.validated = tool_calls,
                                    !.slots = slots,
                                    !.completion = done_positions(slots) ]
       IN  turn' = [ turn EXCEPT ![t] =
                       IF \A i \in DOMAIN slots : slots[i].state = "done"
                       THEN finish_batch(tr)
                       ELSE [ tr EXCEPT !.pc = "awaiting" ] ]
    /\ UNCHANGED << env, executor, tool_to_server, execution_stats, parse_in, parse_out, auth_vars >>

\* execute_tools, lines 143-145: an executor that holds no client returns
\* the empty list
execute_tools_begin(tr, mcp_client) ==
    IF ~mcp_client THEN Some([ tr EXCEPT !.pc = "done", !.results = << >> ]) ELSE None

\* MCPToolExecutor.execute_tools called on its own with a list of calls, to
\* its first suspension or its return.  mcp_client is set by initialize
\* (line 48) and by nothing else: an executor that holds none has not been
\* initialised.
ExecuteTools(t, mcp_client, agent_id, tool_calls) ==
    /\ mcp_client => executor.created
    /\ turn[t].pc = "idle"
    /\ LET tr0 == [ IdleTurn EXCEPT !.round = turn[t].round,
                                     !.kind = "execute_tools",
                                     !.agent_id = agent_id,
                                     !.mcp_client = mcp_client,
                                     !.tool_calls = tool_calls ]
           early == execute_tools_begin(tr0, mcp_client)
           validated == validated_calls(tool_calls, agent_id)
           slots == [ i \in DOMAIN validated |-> begin_slot(tool_to_server, validated[i]) ]
           tr1 == [ tr0 EXCEPT !.executing = TRUE,
                               !.validated = validated,
                               !.results = rejected_results(tool_calls, agent_id),
                               !.slots = slots,
                               !.completion = done_positions(slots) ]
       IN  turn' = [ turn EXCEPT ![t] =
                       IF early # None THEN early[1]
                       ELSE IF \A i \in DOMAIN slots : slots[i].state = "done"
                       THEN finish_execute_tools(tr1)
                       ELSE [ tr1 EXCEPT !.pc = "awaiting" ] ]
    /\ UNCHANGED << env, executor, tool_to_server, execution_stats, parse_in, parse_out, auth_vars >>

\* the handler awaited in slot i returns or raises; dispatch_tool and
\* execute_tool run to their return
HandlerCompletes(t, i, raw) ==
    /\ turn[t].pc = "awaiting"
    /\ i \in DOMAIN turn[t].slots
    /\ turn[t].slots[i].state = "awaiting"
    /\ raw \in BehavioursOf(turn[t].slots[i].handler[1])
    /\ turn' = [ turn EXCEPT ![t].slots = resolve_slot(@, i, turn[t].kind,
                                                       turn[t].validated[i], raw),
                             ![t].completion = Append(@, i) ]
    /\ UNCHANGED << env, executor, tool_to_server, execution_stats, parse_in, parse_out, auth_vars >>

\* every awaited call has resolved: the awaiting function resumes and runs to
\* its return
ResumeTurn(t) ==
    /\ turn[t].pc = "awaiting"
    /\ \A i \in DOMAIN turn[t].slots : turn[t].slots[i].state = "done"
    /\ IF turn[t].kind = "process_llm_response"
       THEN LET fin == finish_turn(turn[t], execution_stats) IN
            /\ turn' = [ turn EXCEPT ![t] = fin.turn ]
            /\ execution_stats' = fin.stats
       ELSE /\ turn' = [ turn EXCEPT ![t] = IF turn[t].kind = "execute_tools"
                                             THEN finish_execute_tools(turn[t])
                                             ELSE finish_batch(turn[t]) ]
            /\ UNCHANGED execution_stats
    /\ UNCHANGED << env, executor, tool_to_server, parse_in, parse_out, auth_vars >>

\* the texts tried together with native invocations: one with a call the
\* parser would find and one with none
TextWithCall == << Prose, Segment("standard", "web_search", TRUE, BodyQuery) >>

\* the responses of the model runtime a turn is started with: no response
\* object, a response carrying text only, a response carrying invocations
TurnInputs ==
    { [ present |-> present, function_calls |-> native, text |-> llm_response ] :
        present \in BOOLEAN, native \in SeqsUpTo(NativeSamples, 0),
        llm_response \in TextSamples }
    \cup
    { [ present |-> TRUE, function_calls |-> native, text |-> llm_response ] :
        native \in { n \in SeqsUpTo(NativeSamples, MaxNative) : Len(n) > 0 },
        llm_response \in { << Prose >>, TextWithCall } }

\* the responses the calls after the first are started with: no response
\* object and prose, a text whose calls are all dropped, a text with a call,
\* a native invocation
FollowUpInputs ==
    { [ present |-> FALSE, function_calls |-> << >>, text |-> << Prose >> ],
      [ present |-> TRUE, function_calls |-> << >>,
        text |-> << Segment("standard", "delete_universe", TRUE, BodyQuery),
                    Segment("xml", "web_search", FALSE, << >>) >> ],
      [ present |-> FALSE, function_calls |-> << >>, text |-> TextWithCall ],
      [ present |-> TRUE,
        function_calls |-> << FunctionCall("web_search", "mapping", ArgsQuery) >>,
        text |-> << Prose >> ] }

StartTurn(t) ==
    /\ executor.created
    /\ turn[t].pc = "idle"
    /\ \E agent_id \in AgentIds,
          gemini_response \in (IF turn[t].round = 0 THEN TurnInputs ELSE FollowUpInputs) :
          /\ ProcessLLMResponse(t, agent_id, gemini_response.text, gemini_response)

\* process_llm_response has returned to its caller; the executor is there
\* for the next call
NextTurn(t) ==
    /\ turn[t].pc = "done"
    /\ turn[t].kind = "process_llm_response"
    /\ turn[t].round + 1 < MaxTurns
    /\ turn' = [ turn EXCEPT ![t] = [ IdleTurn EXCEPT !.round = turn[t].round + 1 ] ]
    /\ UNCHANGED << env, executor, tool_to_server, execution_stats, parse_in, parse_out, auth_vars >>

\* the batch functions neither read nor write the counters: they are tried
\* before the first call of process_llm_response only
StartBatch(t) ==
    /\ executor.created
    /\ turn[t].pc = "idle"
    /\ turn[t].round = 0
    /\ \E tool_calls \in SeqsUpTo(CallSamples, MaxBatch) :
          \/ BatchExecute(t, tool_calls)
          \/ \E initialized \in BOOLEAN : DispatchBatch(t, initialized, tool_calls)

HandlerStep(t) ==
    /\ turn[t].pc = "awaiting"
    /\ \E i \in DOMAIN turn[t].slots :
          /\ turn[t].slots[i].state = "awaiting"
          /\ \E raw \in BehavioursOf(turn[t].slots[i].handler[1]) :
                HandlerCompletes(t, i, raw)

Next ==
    \/ \E ok \in BOOLEAN : GetToolExecutor(ok)
    \/ \E t \in DOMAIN turn : StartTurn(t)
    \/ \E t \in DOMAIN turn : StartBatch(t)
    \/ \E t \in DOMAIN turn : HandlerStep(t)
    \/ \E t \in DOMAIN turn : ResumeTurn(t)
    \/ \E t \in DOMAIN turn : NextTurn(t)

Spec == Init /\ [][Next]_vars

----------------------------------------------------------------------------
(* The parser on its own: parse_llm_response applied to a text and a list  *)
(* of allowed names                                                        *)

InitParse ==
    /\ env = { }
    /\ executor = [ created |-> FALSE, initialized |-> FALSE ]
    /\ tool_to_server = << >>
    /\ execution_stats = ZeroStats
    /\ turn = [ t \in { 1 } |-> IdleTurn ]
    /\ parse_in \in { [ text |-> text, allowed |-> allowed ] :
                        text \in SeqsUpTo(SegmentSamples, MaxSegments),
                        allowed \in AllowedSamples }
    /\ parse_out = [ done |-> FALSE, detections |-> << >>, calls |-> << >> ]
    /\ AuthUnused

ParseLLMResponse ==
    /\ ~parse_out.done
    /\ parse_out' = [ done |-> TRUE,
                      detections |-> all_detections(parse_in.text, parse_in.allowed),
                      calls |-> parse_llm_response(parse_in.text, parse_in.allowed) ]
    /\ UNCHANGED << env, executor, tool_to_server, execution_stats, turn, parse_in,
                    auth_vars >>

NextParse == ParseLLMResponse

SpecParse == InitParse /\ [][NextParse]_vars

----------------------------------------------------------------------------
(* The credential manager on its own.  The methods that do no I/O run as   *)
(* one step; refresh_oauth_token is split at requests.post, and its        *)
(* callers are threads sharing the manager get_auth_manager returns.       *)

\* the services the manager is asked about
ServiceSamples == { "google_drive", "jira", "unknown_service" }

\* what the process finds in its environment: nothing; the OAuth variables
\* of google_drive and half of jira's; a service-account file, jira and
\* github; an incomplete set for google_drive with a path to no file
EnvironScenarios ==
    { [ vars |-> { }, paths |-> { } ],
      [ vars |-> { "GOOGLE_CLIENT_ID", "GOOGLE_CLIENT_SECRET", "GOOGLE_REFRESH_TOKEN",
                   "JIRA_USERNAME" },
        paths |-> { } ],
      [ vars |-> { "GOOGLE_DRIVE_CREDENTIALS_PATH", "JIRA_USERNAME", "JIRA_API_TOKEN",
                   "GITHUB_TOKEN" },
        paths |-> { << "env", "GOOGLE_DRIVE_CREDENTIALS_PATH" >> } ],
      [ vars |-> { "GOOGLE_DRIVE_CREDENTIALS_PATH", "GOOGLE_CLIENT_ID",
                   "GOOGLE_REFRESH_TOKEN" },
        paths |-> { } ] }

InitAuth ==
    /\ env = { }
    /\ executor = [ created |-> FALSE, initialized |-> FALSE ]
    /\ tool_to_server = << >>
    /\ execution_stats = ZeroStats
    /\ turn = [ t \in { 1 } |-> IdleTurn ]
    /\ parse_in = [ text |-> << >>, allowed |-> << >> ]
    /\ parse_out = [ done |-> FALSE, detections |-> << >>, calls |-> << >> ]
    /\ environ \in EnvironScenarios
    /\ credentials_cache = << >>
    /\ now = 0
    /\ auth_ret = NoCall
    /\ refresh_task = [ c \in Callers |-> IdleRefresh ]
    /\ issued = 0

\* a method of the manager that does no I/O has run on the service: r is
\* what it returned and the cache it left
ManagerCall(op, service, r) ==
    /\ credentials_cache' = r.cache
    /\ auth_ret' = [ op |-> op, service |-> service,
                     expired |-> /\ service # None
                                 /\ DictHas(credentials_cache, service[1])
                                 /\ is_expired(DictGet(credentials_cache, service[1]), now),
                     cached |-> service # None /\ DictHas(r.cache, service[1]),
                     ret |-> r.ret ]
    /\ refresh_task' = detach(refresh_task, credentials_cache, r.cache)
    /\ UNCHANGED << env, executor, tool_to_server, execution_stats, turn, parse_in,
                    parse_out, environ, now, issued >>

GetCredentials(service) ==
    ManagerCall("get_credentials", Some(service),
                get_credentials(credentials_cache, environ, service, now))

ValidateCredentials(service) ==
    ManagerCall("validate_credentials", Some(service),
                validate_cached_credentials(credentials_cache, environ, service, now))

GetAuthHeaders(service) ==
    ManagerCall("get_auth_headers", Some(service),
                get_auth_headers(credentials_cache, environ, service, now))

GetCredentialStatus ==
    ManagerCall("get_credential_status", None,
                get_credential_status(credentials_cache, environ, now))

ClearCache(service) ==
    ManagerCall("clear_cache", service,
                [ ret |-> None, cache |-> clear_cache(credentials_cache, service) ])

\* caller c calls refresh_oauth_token(service): it returns False at once, or
\* the request to the token endpoint is sent
RefreshBegin(c, service) ==
    /\ refresh_task[c].pc \in { "idle", "done" }
    /\ LET r == refresh_begin(credentials_cache, environ, service, now)
           mine == [ pc |-> IF r.sent THEN "posted" ELSE "done",
                     service |-> service,
                     had_entry |-> DictHas(credentials_cache, service),
                     attached |-> r.sent,
                     response |-> None,
                     changed |-> r.cache # credentials_cache,
                     ret |-> FALSE ]
       IN  /\ credentials_cache' = r.cache
           /\ refresh_task' = [ detach(refresh_task, credentials_cache, r.cache)
                                  EXCEPT ![c] = mine ]
    /\ UNCHANGED << env, executor, tool_to_server, execution_stats, turn, parse_in,
                    parse_out, environ, now, auth_ret, issued >>

\* the token endpoint answers the request of caller c
TokenEndpointResponds(c, response) ==
    /\ refresh_task[c].pc = "posted"
    /\ response.status = "200" => issued < MaxIssued
    /\ response \in TokenResponses(issued + 1)
    /\ issued' = IF response.status = "200" THEN issued + 1 ELSE issued
    /\ refresh_task' = [ refresh_task EXCEPT ![c].pc = "responded",
                                             ![c].response = Some(response) ]
    /\ UNCHANGED << env, executor, tool_to_server, execution_stats, turn, parse_in,
                    parse_out, environ, credentials_cache, now, auth_ret >>

\* caller c reads the answer: _refresh_google_token assigns to the object it
\* was given and returns, and so does refresh_oauth_token
RefreshEnd(c) ==
    /\ refresh_task[c].pc = "responded"
    /\ LET task == refresh_task[c]
           r == refresh_google_token_end(task.response[1], now)
           cache == IF task.attached
                    THEN store_refreshed(credentials_cache, task.service, r)
                    ELSE credentials_cache
       IN  /\ credentials_cache' = cache
           /\ refresh_task' =
                 [ refresh_task EXCEPT
                     ![c] = [ pc |-> "done", service |-> task.service,
                              had_entry |-> task.had_entry,
                              attached |-> FALSE, response |-> None,
                              changed |-> task.changed \/ cache # credentials_cache,
                              ret |-> r.ret ] ]
    /\ UNCHANGED << env, executor, tool_to_server, execution_stats, turn, parse_in,
                    parse_out, environ, now, auth_ret, issued >>

\* an hour passes
Tick ==
    /\ now < MaxClock
    /\ now' = now + 1
    /\ UNCHANGED << env, executor, tool_to_server, execution_stats, turn, parse_in,
                    parse_out, environ, credentials_cache, auth_ret, refresh_task,
                    issued >>

\* one thread uses the manager
NextAuth ==
    \/ \E service \in ServiceSamples : GetCredentials(service)
    \/ \E service \in ServiceSamples : ValidateCredentials(service)
    \/ \E service \in ServiceSamples : GetAuthHeaders(service)
    \/ GetCredentialStatus
    \/ \E service \in { None } \cup { Some(s) : s \in ServiceSamples } : ClearCache(service)
    \/ \E service \in ServiceSamples : RefreshBegin(1, service)
    \/ \E response \in TokenResponses(issued + 1) : TokenEndpointResponds(1, response)
    \/ RefreshEnd(1)
    \/ Tick

SpecAuth == InitAuth /\ [][NextAuth]_vars

\* the environment that holds the OAuth variables of google_drive
InitRefresh ==
    /\ InitAuth
    /\ "GOOGLE_REFRESH_TOKEN" \in environ.vars
    /\ "GOOGLE_CLIENT_SECRET" \in environ.vars

\* the threads refresh the token of google_drive
NextRefresh ==
    \/ \E c \in Callers : RefreshBegin(c, "google_drive")
    \/ \E c \in Callers : \E response \in TokenResponses(issued + 1) :
          TokenEndpointResponds(c, response)
    \/ \E c \in Callers : RefreshEnd(c)
    \/ ClearCache(Some("google_drive"))
    \/ Tick

SpecRefresh == InitRefresh /\ [][NextRefresh]_vars

----------------------------------------------------------------------------
(* Several process_llm_response calls on one executor, as tasks of one     *)
(* event loop: a task runs until it awaits a handler, and any task whose   *)
(* handler has answered may run next.                                      *)

\* the tasks
Tasks == { 1, 2 }

\* the responses the concurrent calls are started with: a text with one
\* call, two native invocations that are both executed, and two of which
\* one is rejected
InterleavedInputs ==
    { [ present |-> FALSE, function_calls |-> << >>, text |-> TextWithCall ],
      [ present |-> TRUE,
        function_calls |-> << FunctionCall("web_search", "mapping", ArgsQuery),
                              FunctionCall("send_email", "mapping", ArgsQuery) >>,
        text |-> << Prose >> ],
      [ present |-> TRUE,
        function_calls |-> << FunctionCall("delete_universe", "mapping", ArgsQuery),
                              FunctionCall("web_search", "mapping", ArgsQuery) >>,
        text |-> << Prose >> ] }

InitInterleaved ==
    /\ env = { }
    /\ executor = [ created |-> FALSE, initialized |-> FALSE ]
    /\ tool_to_server = << >>
    /\ execution_stats = ZeroStats
    /\ turn = [ t \in Tasks |-> IdleTurn ]
    /\ parse_in = [ text |-> << >>, allowed |-> << >> ]
    /\ parse_out = [ done |-> FALSE, detections |-> << >>, calls |-> << >> ]
    /\ AuthUnused

StartInterleavedTurn(t) ==
    /\ executor.created
    /\ turn[t].pc = "idle"
    /\ \E gemini_response \in InterleavedInputs :
          ProcessLLMResponse(t, "posiAgent", gemini_response.text, gemini_response)

NextInterleaved ==
    \/ \E ok \in BOOLEAN : GetToolExecutor(ok)
    \/ \E t \in DOMAIN turn : StartInterleavedTurn(t)
    \/ \E t \in DOMAIN turn : HandlerStep(t)
    \/ \E t \in DOMAIN turn : ResumeTurn(t)

SpecInterleaved == InitInterleaved /\ [][NextInterleaved]_vars

----------------------------------------------------------------------------
(* Properties *)

\* the tasks that have returned
DoneTurns == { t \in DOMAIN turn : turn[t].pc = "done" }

\* the process_llm_response tasks that have returned
DoneProcessTurns ==
    { t \in DoneTurns : turn[t].kind = "process_llm_response" }

\* the tasks that have returned and in which a batch function was called
DoneBatchTurns == { t \in DoneTurns : turn[t].batch # None }

\* C1: every call handed to execute_tool or dispatch_tool gets exactly one
\* ToolResult back and no exception leaves either function; when the handler
\* raised, the result is a failure whose error is the exception's message.
C1_DispatchTotal ==
    \A t \in DOMAIN turn : \A i \in DOMAIN turn[t].slots :
        LET s == turn[t].slots[i] IN
        s.state = "done" =>
            /\ Len(s.result) = 1
            /\ IsToolResult(s.result[1])
            /\ s.dispatched # None => IsToolResult(s.dispatched[1])
            /\ s.handler # None => s.dispatched # None
            /\ (s.raw # None /\ s.raw[1].py = "raise") =>
                  /\ ~s.dispatched[1].success
                  /\ s.dispatched[1].error = Some(s.raw[1].error)
                  /\ ~s.result[1].success
                  /\ s.result[1].error = Some(s.raw[1].error)

\* a call whose handler raised has its result, and so has a call that no
\* handler was found for
C1_Witness ==
    \E t \in DoneTurns : \E i, j \in DOMAIN turn[t].slots :
        /\ turn[t].slots[i].raw # None
        /\ turn[t].slots[i].raw[1].py = "raise"
        /\ turn[t].slots[i].result # None
        /\ turn[t].slots[j].handler = None
        /\ turn[t].slots[j].result # None

\* C2: batch_execute and dispatch_batch return a list as long as the list of
\* calls, whose i-th element is the outcome of the i-th call and carries the
\* i-th call's name, whatever order the handlers finished in and also when
\* every call failed.
C2_BatchOrder ==
    \A t \in DoneBatchTurns :
        LET tr == turn[t]
            batch == tr.batch[1]
        IN  /\ Len(batch) = Len(tr.validated)
            /\ \A i \in DOMAIN tr.validated :
                  /\ IsToolResult(batch[i])
                  /\ batch[i] = tr.slots[i].result[1]
                  /\ batch[i].tool_name = Some(tr.validated[i].name)

\* a batch of two whose second call finished first and whose calls both
\* failed, with different errors
C2_Witness ==
    \E t \in DoneBatchTurns :
        /\ turn[t].completion = << 2, 1 >>
        /\ \A i \in DOMAIN turn[t].batch[1] : ~turn[t].batch[1][i].success
        /\ turn[t].batch[1][1].error # turn[t].batch[1][2].error

\* the outcome of a call dispatched on its own, its handler doing what raw says
solo_outcome(tr, tool_call, raw) ==
    LET s == IF tr.kind = "dispatch_batch"
             THEN begin_dispatch_slot(tr.dispatcher_initialized, tool_call)
             ELSE begin_slot(tool_to_server, tool_call)
    IN  IF s.state = "done" THEN s.result[1]
        ELSE resolve_slot(<< s >>, 1, tr.kind, tool_call, raw[1])[1].result[1]

\* C3: in a concurrent batch a handler that raises fails its own slot only:
\* every sibling whose handler was awaited ran to its end, and every outcome
\* of the batch is the one its call has when dispatched alone; one raising
\* and one {success: true} call give exactly one failed and one succeeded
\* outcome.
C3_FailureIsolation ==
    \A t \in DoneBatchTurns :
        LET tr == turn[t]
            batch == tr.batch[1]
            raised == { i \in DOMAIN tr.slots :
                          tr.slots[i].raw # None /\ tr.slots[i].raw[1].py = "raise" }
            succeeded == { i \in DOMAIN tr.slots :
                             /\ tr.slots[i].raw # None
                             /\ tr.slots[i].raw[1].py = "dict"
                             /\ tr.slots[i].raw[1].success = "True"
                             /\ ~tr.slots[i].raw[1].has_error }
        IN  /\ \A i \in DOMAIN tr.slots :
                  /\ tr.slots[i].handler # None => tr.slots[i].raw # None
                  /\ batch[i] = solo_outcome(tr, tr.validated[i], tr.slots[i].raw)
            /\ \A i \in raised : ~batch[i].success
            /\ \A i \in succeeded : batch[i].success /\ batch[i].content = tr.slots[i].raw
            /\ (Len(tr.slots) = 2 /\ Cardinality(raised) = 1 /\ Cardinality(succeeded) = 1)
                  => Cardinality({ i \in DOMAIN batch : ~batch[i].success }) = 1

\* a batch of two in which the handler that finished first raised and the
\* other returned {success: true} afterwards
C3_Witness ==
    \E t \in DoneBatchTurns :
        LET tr == turn[t] IN
        /\ Len(tr.slots) = 2
        /\ tr.completion = << 1, 2 >>
        /\ tr.slots[1].raw # None /\ tr.slots[1].raw[1].py = "raise"
        /\ tr.slots[2].raw # None /\ tr.slots[2].raw[1].success = "True"
        /\ ~tr.batch[1][1].success
        /\ tr.batch[1][2].success

\* C4: a call whose tool is not in the allow-list of the turn's agent is
\* never handed to execute_tool or batch_execute nor to a handler, whether it
\* came as a native invocation or was found in the text.
C4_UnauthorizedNeverDispatched ==
    \A t \in DOMAIN turn :
        turn[t].kind = "process_llm_response" =>
            LET tr == turn[t]
                allowed == Range(get_tools_for_agent(tr.agent_id))
            IN  /\ Len(tr.slots) = Len(tr.validated)
                /\ \A i \in DOMAIN tr.validated : tr.validated[i].name \in allowed
                /\ \A i \in DOMAIN tr.slots :
                      tr.slots[i].result # None
                          => tr.slots[i].result[1].tool_name[1] \in allowed

\* a turn that was given a native invocation of a tool outside the allow-list
\* together with one inside it, and has executed the latter
C4_Witness ==
    \E t \in DoneProcessTurns :
        LET tr == turn[t]
            allowed == Range(get_tools_for_agent(tr.agent_id))
        IN  /\ \E i \in DOMAIN tr.native : tr.native[i].name \notin allowed
            /\ \E i \in DOMAIN tr.tool_calls : tr.tool_calls[i].name \notin allowed
            /\ \E i \in DOMAIN tr.slots : tr.slots[i].raw # None

\* the failed outcome that reports the call of tool name as not allowed for
\* the agent of turn tr, looked for in the outcome list the turn returned
reported_unauthorized(tr, name) ==
    \E k \in DOMAIN tr.ret[1].results :
        LET r == tr.ret[1].results[k] IN
        /\ ~r.success
        /\ r.tool_name = Some(name)
        /\ r.error # None
        /\ name \in Range(r.error[1])
        /\ tr.agent_id \in Range(r.error[1])

\* C5: every invocation the authorization filter drops has its own failed
\* outcome, naming the tool and the agent, in the outcome list that
\* process_llm_response returns; this for native invocations and for calls
\* found in the text, and for every agent id, one with an empty allow-list
\* included.
C5_DroppedCallsReported ==
    \A t \in DoneProcessTurns :
        LET tr == turn[t]
            allowed == Range(get_tools_for_agent(tr.agent_id))
        IN  executor.initialized =>
              /\ \A i \in DOMAIN tr.tool_calls :
                    tr.tool_calls[i].name \notin allowed
                        => reported_unauthorized(tr, tr.tool_calls[i].name)
              /\ \A i \in DOMAIN tr.native :
                    ( /\ tr.native[i].args_kind # "not_a_mapping"
                      /\ tr.native[i].name \notin allowed )
                    => reported_unauthorized(tr, tr.native[i].name)
              /\ tr.native = << >> =>
                    \A i \in DOMAIN tr.llm_response :
                        ( /\ tr.llm_response[i].enc # "prose"
                          /\ tr.llm_response[i].body_ok
                          /\ tr.llm_response[i].name \notin allowed )
                        => reported_unauthorized(tr, tr.llm_response[i].name)

\* C6: when process_llm_response attempted calls, the text it returns is the
\* model output followed by a block with one rendered entry per attempted
\* call, failed, rejected and not-found calls included.
C6_EveryAttemptRendered ==
    \A t \in DoneProcessTurns :
        LET tr == turn[t]
            text == tr.ret[1].text
        IN  tr.tool_calls # << >> =>
              /\ Len(text) = Len(tr.llm_response) + 1
              /\ text[Len(text)].enc = "tool_results"
              /\ Len(text[Len(text)].entries) = Len(tr.tool_calls)
              /\ \A i \in DOMAIN tr.tool_calls :
                    \E k \in DOMAIN text[Len(text)].entries :
                        text[Len(text)].entries[k].tool_name = Some(tr.tool_calls[i].name)

\* C7: process_llm_response always returns a pair of a text and a list of
\* ToolResults, never an exception; the text starts with the model output,
\* and a call that failed is in the list as a failed outcome or not at all.
C7_NothingEscapes ==
    \A t \in DoneProcessTurns :
        LET tr == turn[t] IN
        /\ tr.ret # None
        /\ tr.ret[1].tag = "return"
        /\ Len(tr.ret[1].text) >= Len(tr.llm_response)
        /\ SubSeq(tr.ret[1].text, 1, Len(tr.llm_response)) = tr.llm_response
        /\ \A k \in DOMAIN tr.ret[1].results :
              /\ IsToolResult(tr.ret[1].results[k])
              /\ tr.ret[1].results[k].success =>
                    \E i \in DOMAIN tr.slots :
                        /\ tr.slots[i].result = Some(tr.ret[1].results[k])
                        /\ tr.slots[i].raw # None
                        /\ tr.slots[i].raw[1].py # "raise"
                        /\ ~tr.slots[i].raw[1].has_error
                        /\ tr.slots[i].raw[1].success # "False"

\* a turn with two calls whose handlers were awaited: one raised and is
\* returned as a failed outcome, the other is returned as a success
C7_Witness ==
    \E t \in DoneProcessTurns :
        LET tr == turn[t] IN
        /\ \E i \in DOMAIN tr.slots :
              /\ tr.slots[i].raw # None
              /\ tr.slots[i].raw[1].py = "raise"
              /\ \E k \in DOMAIN tr.ret[1].results :
                    /\ tr.ret[1].results[k] = tr.slots[i].result[1]
                    /\ ~tr.ret[1].results[k].success
        /\ \E k \in DOMAIN tr.ret[1].results : tr.ret[1].results[k].success

\* C8: when extraction gives no invocation, process_llm_response returns the
\* model output as it is with an empty outcome list, leaves the four
\* counters as they were and awaits no handler.
C8_PassThrough ==
    \A t \in DoneProcessTurns :
        LET tr == turn[t] IN
        tr.tool_calls = << >> =>
            /\ tr.ret = Some(Returned(tr.llm_response, << >>))
            /\ execution_stats = tr.stats0
            /\ tr.slots = << >>
            /\ tr.validated = << >>
            /\ ~tr.executing

\* an executor that has executed calls before and an agent with tools, given
\* a text in which extraction ran over call-shaped segments and found no
\* invocation
C8_Witness ==
    \E t \in DoneProcessTurns :
        LET tr == turn[t] IN
        /\ executor.initialized
        /\ get_tools_for_agent(tr.agent_id) # << >>
        /\ tr.text_parsed
        /\ \E i \in DOMAIN tr.llm_response : tr.llm_response[i].enc # "prose"
        /\ tr.tool_calls = << >>
        /\ tr.ret = Some(Returned(tr.llm_response, << >>))
        /\ tr.stats0.total_executions > 0
        /\ tr.stats0.total_execution_time > 0
        /\ execution_stats = tr.stats0

\* C9: when the model runtime supplied native invocations for a turn, the
\* text is not parsed for that turn and the calls taken are exactly the
\* native ones.
C9_NativePrecedence ==
    \A t \in DoneProcessTurns :
        LET tr == turn[t] IN
        ( /\ executor.initialized
          /\ get_tools_for_agent(tr.agent_id) # << >>
          /\ tr.native # << >> )
        => /\ ~tr.text_parsed
           /\ Len(tr.tool_calls) = Len(tr.native)
           /\ \A i \in DOMAIN tr.tool_calls : tr.tool_calls[i].name = tr.native[i].name

\* two detections are of the same call: the same name and the same
\* arguments, whatever order the arguments were written in
same_call(a, b) == a.name = b.name /\ Range(a.arguments) = Range(b.arguments)

\* the position in detections of the first detection of the call c is of
first_occurrence(detections, c) ==
    CHOOSE i \in DOMAIN detections :
        /\ same_call(detections[i], c)
        /\ \A j \in 1..(i - 1) : ~same_call(detections[j], c)

\* C10: the detections of the four passes are grouped by name and arguments
\* serialised with sorted keys; of each group exactly one detection
\* survives, one of the group's highest confidence (of an inline 0.8 and a
\* tagged-block 0.9 detection of one call only the 0.9 one); the survivors
\* are in the order in which their groups first occurred.
C10_Deduplication ==
    parse_out.done =>
        LET detections == parse_out.detections
            calls == parse_out.calls
        IN  /\ \A k \in DOMAIN calls : \E i \in DOMAIN detections : calls[k] = detections[i]
            /\ \A k, l \in DOMAIN calls : same_call(calls[k], calls[l]) => k = l
            /\ \A i \in DOMAIN detections : \E k \in DOMAIN calls :
                  /\ same_call(calls[k], detections[i])
                  /\ calls[k].confidence >= detections[i].confidence
            /\ \A k, l \in DOMAIN calls :
                  k < l => first_occurrence(detections, calls[k])
                             < first_occurrence(detections, calls[l])

\* a text in which one call is written inline and as a tagged block, and
\* another call once: three detections, two survivors, the tagged-block one
\* first
C10_Witness ==
    /\ parse_out.done
    /\ Len(parse_out.detections) = 3
    /\ Len(parse_out.calls) = 2
    /\ \E i, j \in DOMAIN parse_out.detections :
          /\ same_call(parse_out.detections[i], parse_out.detections[j])
          /\ parse_out.detections[i].confidence = ConfStandard
          /\ parse_out.detections[j].confidence = ConfXml
    /\ parse_out.calls[1].confidence = ConfXml
    /\ parse_out.calls[2].name # parse_out.calls[1].name

\* the argument mapping a candidate call denotes: each value of an inline
\* body read as it is written, from its first character to its last
denoted_arguments(seg) ==
    IF seg.enc \in { "standard", "markdown" }
    THEN DictFromAssignments([ i \in DOMAIN seg.args |->
                                 << seg.args[i][1], parse_value(seg.args[i]) >> ])
    ELSE seg.args

\* C11: parse_llm_response returns an invocation named n only if n is an
\* allowed name, in each of the four encodings; a candidate whose argument
\* body is malformed is dropped, without an exception and without keeping
\* the other candidates of the text from being returned.
C11_AllowListAndMalformed ==
    parse_out.done =>
        /\ \A k \in DOMAIN parse_out.calls :
              /\ parse_out.calls[k].name \in Range(parse_in.allowed)
              /\ parse_out.calls[k].raw_text.body_ok
        /\ \A i \in DOMAIN parse_in.text :
              ( /\ parse_in.text[i].enc # "prose"
                /\ parse_in.text[i].body_ok
                /\ parse_in.text[i].name \in Range(parse_in.allowed) )
              => \E k \in DOMAIN parse_out.calls :
                    /\ parse_out.calls[k].name = parse_in.text[i].name
                    /\ Range(parse_out.calls[k].arguments)
                          = Range(denoted_arguments(parse_in.text[i]))

\* C12: two calls whose names the registry maps to the same handler and whose
\* arguments are equal invoke the same handler, and when the handler does the
\* same for both, their outcomes have the same success flag, payload and
\* error.
C12_AliasEquivalence ==
    \A t \in DoneTurns : \A i, j \in DOMAIN turn[t].slots :
        LET tr == turn[t]
            a == tr.validated[i]
            b == tr.validated[j]
        IN  ( /\ tool_mapping_get(a.name) # None
              /\ tool_mapping_get(a.name) = tool_mapping_get(b.name)
              /\ a.parameters = b.parameters )
            => /\ tr.slots[i].handler = tr.slots[j].handler
               /\ (tr.slots[i].raw # None /\ tr.slots[i].raw = tr.slots[j].raw) =>
                     /\ tr.slots[i].result[1].success = tr.slots[j].result[1].success
                     /\ tr.slots[i].result[1].content = tr.slots[j].result[1].content
                     /\ tr.slots[i].result[1].error = tr.slots[j].result[1].error

\* the error message says "not found": the two messages of the code that do
says_not_found(error) ==
    /\ error # None
    /\ \E k \in DOMAIN error[1] :
          error[1][k] \in { "not found. Available tools", "not found in any server" }

\* the call in slot i of task t got the outcome of a lookup miss: a failed
\* ToolResult carrying the requested name and a "not found" error, and no
\* handler was invoked
lookup_miss_outcome(t, i) ==
    LET s == turn[t].slots[i]
        r == s.result[1]
    IN  /\ IsToolResult(r)
        /\ ~r.success
        /\ r.tool_name = Some(turn[t].validated[i].name)
        /\ says_not_found(r.error)
        /\ s.handler = None
        /\ s.raw = None

ReturnedSlots ==
    { p \in UNION { { << t, i >> : i \in DOMAIN turn[t].slots } : t \in DOMAIN turn } :
        LET s == turn[p[1]].slots[p[2]]
        IN  s.state = "done" /\ s.raw # None /\ s.raw[1].py # "raise" }

\* dispatch_tool gave a failed outcome for the value raw, with the message
\* of its "error" entry or "Unknown error", and the value as payload
classified_failed(d, raw) ==
    /\ ~d.success
    /\ d.error = Some(IF raw.has_error THEN raw.error ELSE << "Unknown error" >>)
    /\ d.content = Some(raw)

\* dispatch_tool gave a successful outcome whose payload is the value
classified_successful(d, raw) ==
    /\ d.success
    /\ d.error = None
    /\ d.content = Some(raw)

\* C14 as stated: a mapping that contains an `error` key, or whose `success`
\* key is explicitly false, gives a failed outcome with the message taken
\* from `error` (or "Unknown error"); any other mapping and any non-mapping
\* value gives a successful outcome whose payload is the value as returned.
C14_ClassificationAsStated ==
    \A p \in ReturnedSlots :
        LET s == turn[p[1]].slots[p[2]]
            raw == s.raw[1]
            d == s.dispatched[1]
        IN  IF raw.py = "dict" /\ (raw.has_error \/ raw.success = "False")
            THEN classified_failed(d, raw)
            ELSE classified_successful(d, raw)

\* C14: dispatch_tool classifies the handler's return value as follows: a
\* mapping that contains an `error` key, or whose `success` entry is present
\* and falsy (False, and also None, 0 or an empty value), gives a failed
\* outcome with the message taken from `error` (or "Unknown error"); any
\* other mapping and any non-mapping value gives a successful outcome whose
\* payload is the value as returned.
C14_Classification ==
    \A p \in ReturnedSlots :
        LET s == turn[p[1]].slots[p[2]]
            raw == s.raw[1]
            d == s.dispatched[1]
        IN  IF raw.py = "dict" /\ (raw.has_error \/ raw.success \in { "False", "None" })
            THEN classified_failed(d, raw)
            ELSE classified_successful(d, raw)

\* in one batch a handler returned a mapping with an `error` key and another
\* returned a mapping whose `success` entry is None
C14_Witness ==
    \E p, q \in ReturnedSlots :
        /\ p[1] = q[1]
        /\ turn[p[1]].pc = "done"
        /\ turn[p[1]].slots[p[2]].raw[1].has_error
        /\ turn[q[1]].slots[q[2]].raw[1].success = "None"

\* the entries of the cache are one per service and each is a credential of
\* the service it is filed under
one_credential_per_service(cache) ==
    /\ \A i, j \in DOMAIN cache : cache[i][1] = cache[j][1] => i = j
    /\ \A i \in DOMAIN cache : cache[i][2].service = cache[i][1]

\* C15: after any sequence of get, refresh, headers, status and clear
\* operations the cache holds at most one credential per service id, the
\* entry filed under a service is a credential of that service, and a
\* successful refresh leaves exactly one entry for its service: it replaces
\* the entry rather than adding a second one.
C15_OneCredentialPerService ==
    /\ one_credential_per_service(credentials_cache)
    /\ Len(credentials_cache) <= Len(env_mapping)
    /\ \A c \in Callers :
          (refresh_task[c].pc = "done" /\ refresh_task[c].ret /\ refresh_task[c].changed)
              => Len(SelectSeq(credentials_cache,
                               LAMBDA kv : kv[2].type = "OAuthCredentials")) <= 1

\* a refresh of an entry the cache already held has succeeded and its token
\* is in the cache
C15_Witness ==
    /\ refresh_task[1].pc = "done"
    /\ refresh_task[1].ret
    /\ refresh_task[1].had_entry
    /\ refresh_task[1].changed
    /\ DictHas(credentials_cache, "google_drive")
    /\ DictGet(credentials_cache, "google_drive").access_token # << >>

\* the value was read from a variable the environment holds
from_environ(e, value) ==
    /\ Len(value) = 2
    /\ value[1] = "env"
    /\ value[2] \in e.vars

\* the inputs the strategy of the service needs are in the environment
required_inputs_supplied(e, service) ==
    \/ service = "github" /\ "GITHUB_TOKEN" \in e.vars
    \/ /\ service = "google_drive"
       /\ \/ { "GOOGLE_CLIENT_ID", "GOOGLE_CLIENT_SECRET", "GOOGLE_REFRESH_TOKEN" }
                \subseteq e.vars
          \/ /\ "GOOGLE_DRIVE_CREDENTIALS_PATH" \in e.vars
             /\ << "env", "GOOGLE_DRIVE_CREDENTIALS_PATH" >> \in e.paths
    \/ service = "jira" /\ { "JIRA_USERNAME", "JIRA_API_TOKEN" } \subseteq e.vars
    \/ service = "slack" /\ "SLACK_BOT_TOKEN" \in e.vars
    \/ service = "linear" /\ "LINEAR_API_KEY" \in e.vars
    \/ service = "notion" /\ "NOTION_API_KEY" \in e.vars

\* every secret of the credential was read from the environment; the access
\* token of an oauth credential is empty or was issued by the token endpoint
secrets_supplied(e, creds) ==
    IF creds.type = "APIKeyCredentials" THEN from_environ(e, creds.api_key)
    ELSE IF creds.type = "BasicAuthCredentials"
    THEN from_environ(e, creds.username) /\ from_environ(e, creds.password)
    ELSE /\ creds.refresh_token # None
         /\ from_environ(e, creds.refresh_token[1])
         /\ creds.access_token # << >> => creds.access_token[1] = "token"

C17_ExpiredUntilRefreshed ==
    /\ (auth_ret.op = "validate_credentials" /\ auth_ret.expired) => auth_ret.ret = FALSE
    /\ (auth_ret.op = "get_auth_headers" /\ auth_ret.expired) => auth_ret.ret = << >>

\* C18: a refresh_oauth_token call that returns False leaves the cache entry
\* its service had when the call began exactly as it was, also when that
\* entry is expired.
C18_FailedRefreshKeepsEntry ==
    \A c \in Callers :
        ( /\ refresh_task[c].pc = "done"
          /\ ~refresh_task[c].ret
          /\ refresh_task[c].had_entry )
            => ~refresh_task[c].changed

\* no two refreshes of one service are waiting for or holding an answer of
\* the token endpoint
single_refresh_in_flight ==
    \A c, d \in Callers :
        ( /\ c # d
          /\ refresh_task[c].pc \in { "posted", "responded" }
          /\ refresh_task[d].pc \in { "posted", "responded" } )
            => refresh_task[c].service # refresh_task[d].service

\* a step does not put an access token into the cache that was issued before
\* the one the cache held
no_older_token_published ==
    \A service \in DictKeys(credentials_cache) \cap DictKeys(credentials_cache') :
        LET old == DictGet(credentials_cache, service)
            new == DictGet(credentials_cache', service)
        IN  ( /\ old.type = "OAuthCredentials"
              /\ new.type = "OAuthCredentials"
              /\ old.access_token # << >>
              /\ new.access_token # << >> )
                => new.access_token[2] >= old.access_token[2]

\* C19: concurrent refreshes of the same service are serialized: at no time
\* are two refreshes of the same service in flight, and a refresh that
\* completes later never overwrites the cached entry with a token older than
\* the one already published.
C19_RefreshSerialized ==
    /\ [] single_refresh_in_flight
    /\ [][no_older_token_published]_vars

\* the tasks that have run the four additions to the counters
CountedTurns == { t \in DoneProcessTurns : turn[t].executing }

RECURSIVE counted_stats(_)
\* the counters after the additions of the tasks ts and of no other
counted_stats(ts) ==
    IF ts = { } THEN ZeroStats
    ELSE LET t == CHOOSE x \in ts : TRUE
         IN  update_stats(counted_stats(ts \ { t }), turn[t].tool_calls, turn[t].results)

\* C20: the counters are written only after the turn's whole set of calls
\* has resolved: at every point at which a task can run, the counters are
\* the sum of the complete updates of the turns that have returned, a turn
\* that is still executing has added to none of them, and total equals
\* succeeded plus failed (no update is seen half applied).
C20_StatsAfterBatch ==
    /\ execution_stats = counted_stats(CountedTurns)
    /\ execution_stats.total_executions =
          execution_stats.successful_executions + execution_stats.failed_executions

\* one task waits for the second of its two handlers, the first having
\* answered, while the other task has returned and has been counted
C20_Witness ==
    \E t, u \in DOMAIN turn :
        /\ turn[t].pc = "awaiting"
        /\ \E i, j \in DOMAIN turn[t].slots :
              /\ turn[t].slots[i].state = "done"
              /\ turn[t].slots[i].raw # None
              /\ turn[t].slots[j].state = "awaiting"
        /\ u \in CountedTurns
        /\ execution_stats.total_executions = Len(turn[u].tool_calls)
        /\ execution_stats.failed_executions > 0

(***************************************************************************)
(* The registry: the client's tool_to_server under every combination of    *)
(* credentials for the servers that share tool names, and single calls     *)
(* through MCPClient.execute_tool for names of each kind.                  *)
(***************************************************************************)

\* the credentials present: github and jira both list create_issue and
\* update_issue, github and google_drive both list delete_file
RegistryScenarios == SUBSET { "github", "jira", "google_drive" }

\* a name in both tables whose server depends on the credentials, a name a
\* server lists and the dispatcher does not know, a name only the dispatcher
\* knows, a name in neither
RegistryCalls ==
    { ToolCall(<< "direct", "create_issue" >>, "create_issue", << >>),
      ToolCall(<< "direct", "image_search" >>, "image_search", ArgsQuery),
      ToolCall(<< "direct", "search_web" >>, "search_web", ArgsQuery),
      ToolCall(<< "direct", "nonexistent_tool" >>, "nonexistent_tool", << >>) }

InitRegistry ==
    /\ env \in RegistryScenarios
    /\ executor = [ created |-> FALSE, initialized |-> FALSE ]
    /\ tool_to_server = << >>
    /\ execution_stats = ZeroStats
    /\ turn = [ t \in { 1 } |-> IdleTurn ]
    /\ parse_in = [ text |-> << >>, allowed |-> << >> ]
    /\ parse_out = [ done |-> FALSE, detections |-> << >>, calls |-> << >> ]
    /\ AuthUnused

\* one call through MCPClient.execute_tool
StartRegistryCall(t) ==
    \E tool_call \in RegistryCalls : BatchExecute(t, << tool_call >>)

NextRegistry ==
    \/ \E ok \in BOOLEAN : GetToolExecutor(ok)
    \/ \E t \in DOMAIN turn : StartRegistryCall(t)
    \/ \E t \in DOMAIN turn : HandlerStep(t)
    \/ \E t \in DOMAIN turn : ResumeTurn(t)

SpecRegistry == InitRegistry /\ [][NextRegistry]_vars

\* the enabled servers whose tools list holds the name
claimants(server_ids, tool) ==
    { s \in Range(server_ids) : tool \in Range(ServerTools[s]) }

\* no key stands twice in a table of pairs
single_binding(table) ==
    \A i, j \in DOMAIN table : table[i][1] = table[j][1] => i = j

(* C21: every invocable name resolves to at most one binding, in the       *)
(* dispatcher's registry and in the client's tool_to_server, and a server  *)
(* table in which two enabled servers claim the same name is rejected when *)
(* the registry is built: the client is never initialised from it with one *)
(* of the two bindings silently replaced by the other.                     *)
C21_DuplicateBindingRejected ==
    /\ single_binding(ToolMappingTable)
    /\ single_binding(tool_to_server)
    /\ executor.initialized =>
          \A s \in Range(get_mcp_server_configs(env)) :
             \A tool \in Range(ServerTools[s]) :
                Cardinality(claimants(get_mcp_server_configs(env), tool)) <= 1

(***************************************************************************)
(* execute_tools called on its own, as test_tool_execution calls it, on an *)
(* executor that holds a client and on one that holds none.                *)
(***************************************************************************)

StartExecuteTools(t) ==
    \E mcp_client \in BOOLEAN, agent_id \in AgentIds,
       tool_calls \in SeqsUpTo(CallSamples, MaxBatch) :
          ExecuteTools(t, mcp_client, agent_id, tool_calls)

NextExecuteTools ==
    \/ \E ok \in BOOLEAN : GetToolExecutor(ok)
    \/ \E t \in DOMAIN turn : StartExecuteTools(t)
    \/ \E t \in DOMAIN turn : HandlerStep(t)
    \/ \E t \in DOMAIN turn : ResumeTurn(t)

SpecExecuteTools == Init /\ [][NextExecuteTools]_vars

\* the calls of execute_tools that have returned
DoneExecuteTurns == { t \in DoneTurns : turn[t].kind = "execute_tools" }

SpecTermination ==
    /\ Init
    /\ [][NextInterleaved]_vars
    /\ \A t \in { 1 } : WF_vars(HandlerStep(t)) /\ WF_vars(ResumeTurn(t))

\* the slots of task t whose handler has not returned
awaited_slots(t) ==
    { i \in DOMAIN turn[t].slots : turn[t].slots[i].state = "awaiting" }

\* a step leaves a task with a handler that has not returned where it is:
\* nothing is returned and no result of the turn is delivered
blocked_turn_stays(t) ==
    (turn[t].pc = "awaiting" /\ awaited_slots(t) # { } /\ awaited_slots(t)' # { })
        => /\ turn'[t].pc = "awaiting"
           /\ turn'[t].ret = None
           /\ turn'[t].batch = None

\* a slot in which a handler is awaited resolves only with what that handler
\* returned or raised: nothing times it out or cancels it
resolved_by_handler(t) ==
    \A i \in awaited_slots(t) :
        turn'[t].slots[i].state = "done" =>
            /\ turn'[t].slots[i].raw # None
            /\ turn'[t].slots[i].raw[1] \in BehavioursOf(turn[t].slots[i].handler[1])

(* C23: if every handler invocation eventually returns or raises, every    *)
(* call of process_llm_response eventually returns.  No tool call has a    *)
(* timeout or is cancelled: an awaited slot resolves only with what its    *)
(* handler returned or raised, and while a handler of the turn has not     *)
(* returned the turn stays suspended and delivers no outcome, those of the *)
(* calls that have completed included.                                     *)
C23_Termination ==
    /\ \A t \in { 1 } : (turn[t].pc = "awaiting") ~> (turn[t].pc = "done")
    /\ [][\A t \in { 1 } : blocked_turn_stays(t) /\ resolved_by_handler(t)]_vars

\* a turn of two calls has returned after both handlers were awaited and
\* the second returned before the first
C23_Witness ==
    \E t \in DOMAIN turn :
        /\ turn[t].pc = "done"
        /\ turn[t].ret # None
        /\ Len(turn[t].slots) = 2
        /\ \A i \in DOMAIN turn[t].slots : turn[t].slots[i].raw # None
        /\ turn[t].completion = << 2, 1 >>

(***************************************************************************)
(* The parser on texts of inline calls name(key=value, ...).               *)
(***************************************************************************)

\* the inline calls a text is drawn from: the call of the test scenario, the
\* same call with its parts in the other order, with the number between
\* quotes, with a float, a boolean and a bare word, with a query that holds
\* a pair of parentheses, and a call of a tool that is not allowed
InlineSamples ==
    { Segment("standard", "web_search", TRUE,
              << Part("query", "quoted", << "positive it" >>),
                 Part("num_results", "bare", << "3" >>) >>),
      Segment("standard", "web_search", TRUE,
              << Part("num_results", "bare", << "3" >>),
                 Part("query", "quoted", << "positive it" >>) >>),
      Segment("standard", "web_search", TRUE,
              << Part("query", "quoted", << "positive it" >>),
                 Part("num_results", "quoted", << "3" >>) >>),
      Segment("standard", "web_search", TRUE,
              << Part("query", "quoted", << "positive it" >>),
                 Part("num_results", "bare", << "3.0" >>) >>),
      Segment("standard", "web_search", TRUE,
              << Part("query", "bare", << "positive" >>),
                 Part("num_results", "bare", << "True" >>) >>),
      Segment("standard", "web_search", TRUE,
              << Part("query", "quoted", << "f(x", ")" >>),
                 Part("num_results", "bare", << "3" >>) >>),
      Segment("standard", "search_files", TRUE,
              << Part("query", "quoted", << "positive it" >>) >>),
      Prose }

InitInline ==
    /\ env = { }
    /\ executor = [ created |-> FALSE, initialized |-> FALSE ]
    /\ tool_to_server = << >>
    /\ execution_stats = ZeroStats
    /\ turn = [ t \in { 1 } |-> IdleTurn ]
    /\ parse_in \in { [ text |-> text, allowed |-> << "web_search" >> ] :
                        text \in SeqsUpTo(InlineSamples, MaxSegments) }
    /\ parse_out = [ done |-> FALSE, detections |-> << >>, calls |-> << >> ]
    /\ AuthUnused

SpecInline == InitInline /\ [][NextParse]_vars

\* the calls written in the text to allowed tools, each as its name and the
\* set of its key-value pairs
written_calls(text, allowed) ==
    { << text[i].name, Range(denoted_arguments(text[i])) >> :
        i \in { j \in DOMAIN text : /\ text[j].enc = "standard"
                                    /\ text[j].name \in Range(allowed) } }

(* C24: for a text of inline calls name(key=value, ...), parse_llm_response *)
(* returns one invocation per distinct (name, arguments) call to an        *)
(* allowed tool, with the name and the argument mapping of that call, each *)
(* value coerced by its type: as many invocations as there are distinct    *)
(* calls, and for web_search(query="positive it", num_results=3) alone     *)
(* exactly one invocation with query the string and num_results the        *)
(* integer 3.                                                              *)
C24_InlineCalls ==
    parse_out.done =>
        /\ { << parse_out.calls[k].name, Range(parse_out.calls[k].arguments) >> :
               k \in DOMAIN parse_out.calls }
             = written_calls(parse_in.text, parse_in.allowed)
        /\ Len(parse_out.calls) = Cardinality(written_calls(parse_in.text, parse_in.allowed))

\* the scenario of the test: one invocation, num_results the integer 3
C24_ScenarioA ==
    ( /\ parse_out.done
      /\ Len(parse_in.text) = 2
      /\ parse_in.text[1] = Prose
      /\ parse_in.text[2].enc = "standard"
      /\ parse_in.text[2].args = << Part("query", "quoted", << "positive it" >>),
                                    Part("num_results", "bare", << "3" >>) >> )
    => /\ Len(parse_out.calls) = 1
       /\ parse_out.calls[1].name = "web_search"
       /\ parse_out.calls[1].arguments
            = << << "query", PyValue("str", << "positive it" >>) >>, << "num_results", PyValue("int", 3) >> >>

\* each of the four counters after a step is at least what it was before
counters_never_decrease ==
    /\ execution_stats'.total_executions >= execution_stats.total_executions
    /\ execution_stats'.successful_executions >= execution_stats.successful_executions
    /\ execution_stats'.failed_executions >= execution_stats.failed_executions
    /\ execution_stats'.total_execution_time >= execution_stats.total_execution_time

(* C25: after any sequence of calls of process_llm_response, one after the *)
(* other or interleaved at their awaits, the total of executions equals    *)
(* the successful plus the failed ones, and no step makes a counter        *)
(* smaller.                                                                *)
C25_CountersConsistent ==
    /\ [](execution_stats.total_executions
            = execution_stats.successful_executions + execution_stats.failed_executions)
    /\ [][counters_never_decrease]_vars

\* both tasks have returned and were counted, one with a success and one
\* with a failure among its calls
C25_Witness ==
    /\ \A t \in Tasks : t \in CountedTurns
    /\ execution_stats.successful_executions >= 1
    /\ execution_stats.failed_executions >= 1
    /\ execution_stats.total_executions >= 3

RECURSIVE returned_outcomes(_)
\* the number of outcomes in the lists the calls ts of process_llm_response
\* returned to their callers
returned_outcomes(ts) ==
    IF ts = { } THEN 0
    ELSE LET t == CHOOSE x \in ts : TRUE
         IN  Len(turn[t].ret[1].results) + returned_outcomes(ts \ { t })

(* C26: total_executions equals the sum of the lengths of the outcome      *)
(* lists process_llm_response has returned to its callers; a turn has      *)
(* added to the counters if and only if it returned its outcomes: a turn   *)
(* that was counted returned the list of its results, and a turn that      *)
(* returned an empty list left the counters as they were.                  *)
C26_CountedIffReturned ==
    /\ execution_stats.total_executions = returned_outcomes(DoneProcessTurns)
    /\ \A t \in DoneProcessTurns :
          /\ turn[t].executing => turn[t].ret[1].results = turn[t].results
          /\ turn[t].ret[1].results = << >> => ~turn[t].executing

(* C27: on every path of process_llm_response the returned text begins     *)
(* with the model output it was given, unmodified, and differs from it at  *)
(* most by one appended block, the rendering of the results the turn       *)
(* returns: never a shortened, rewritten or reordered text.                *)
C27_TextPreserved ==
    \A t \in DoneProcessTurns :
        LET given == turn[t].llm_response
            text == turn[t].ret[1].text
        IN  /\ Len(text) >= Len(given)
            /\ SubSeq(text, 1, Len(given)) = given
            /\ \/ text = given
               \/ /\ Len(text) = Len(given) + 1
                  /\ text[Len(text)].enc = "tool_results"
                  /\ Len(text[Len(text)].entries) = Len(turn[t].ret[1].results)
                  /\ turn[t].ret[1].results # << >>

\* a turn whose text held call-shaped segments has returned it with the
\* rendering of its results appended
C27_Witness ==
    \E t \in DoneProcessTurns :
        /\ \E i \in DOMAIN turn[t].llm_response : turn[t].llm_response[i].enc # "prose"
        /\ Len(turn[t].ret[1].text) = Len(turn[t].llm_response) + 1
        /\ turn[t].ret[1].text[Len(turn[t].ret[1].text)].enc = "tool_results"

(***************************************************************************)
(* get_credentials over time, with an environment that changes between     *)
(* the calls.                                                              *)
(***************************************************************************)

\* os.environ is changed, or the credentials file appears or goes away,
\* between two calls of the manager
SetEnviron ==
    /\ \E e \in EnvironScenarios : e # environ /\ environ' = e
    /\ UNCHANGED << env, executor, tool_to_server, execution_stats, turn, parse_in,
                    parse_out, credentials_cache, now, auth_ret, refresh_task, issued >>

NextExpiry ==
    \/ \E service \in ServiceSamples : GetCredentials(service)
    \/ SetEnviron
    \/ Tick

SpecExpiry == InitAuth /\ [][NextExpiry]_vars

\* the step is a call of get_credentials for the service
get_credentials_step(service) ==
    /\ auth_ret'.op = "get_credentials"
    /\ auth_ret'.service = Some(service)
    /\ now' = now
    /\ environ' = environ

\* what the claim says of one call: the credential returned is not expired
\* at the time of the return; an expired entry has been replaced in the
\* cache by the credential returned, created at the time of the call, or
\* None was returned and the cache is as it was
unexpired_or_none(service) ==
    LET before == cache_entry(credentials_cache, service)
        ret == auth_ret'.ret
    IN  /\ ret # None => ~is_expired(ret[1], now')
        /\ (before # None /\ is_expired(before[1], now)) =>
              IF required_inputs_supplied(environ, service)
              THEN /\ ret # None
                   /\ ret[1] # before[1]
                   /\ ret[1].created_at = now
                   /\ cache_entry(credentials_cache', service) = ret
              ELSE /\ ret = None
                   /\ credentials_cache' = credentials_cache

(* C28: get_credentials never returns a credential for which is_expired()  *)
(* is true at the time of the return.  When the cached entry of the        *)
(* service has expired it is replaced by a credential newly built from the *)
(* source, which is the one returned; when the source no longer supplies   *)
(* the inputs, None is returned and the expired entry stays in the cache.  *)
C28_NeverReturnsExpired ==
    [][\A service \in ServiceSamples :
          get_credentials_step(service) => unexpired_or_none(service)]_vars

\* the entry of google_drive had expired and the environment no longer held
\* the inputs: the call returned None and the expired entry is still cached
C28_Witness ==
    /\ auth_ret.op = "get_credentials"
    /\ auth_ret.service = Some("google_drive")
    /\ auth_ret.expired
    /\ auth_ret.ret = None
    /\ DictHas(credentials_cache, "google_drive")
    /\ is_expired(DictGet(credentials_cache, "google_drive"), now)
    /\ ~required_inputs_supplied(environ, "google_drive")

\* the name is a key of the client's tool_to_server
in_tool_to_server(name) == get_server_for_tool(tool_to_server, name) # None

\* the name is a key of the dispatcher's tool_mapping
in_tool_mapping(name) == tool_mapping_get(name) # None

(* C29: a call through MCPClient.execute_tool invokes a handler only if    *)
(* its name is in the client's tool_to_server and in the dispatcher's      *)
(* tool_mapping; a name in one of the two tables only yields a failed      *)
(* outcome and no handler runs; the handler invoked is the one the         *)
(* dispatcher's table gives for the name, whatever server the client       *)
(* recorded for it.                                                        *)
C29_BothTablesOrNoHandler ==
    \A t \in DOMAIN turn :
        turn[t].kind = "batch_execute" =>
            \A i \in DOMAIN turn[t].slots :
                LET name == turn[t].validated[i].name
                    slot == turn[t].slots[i]
                IN  /\ slot.handler # None =>
                          /\ in_tool_to_server(name)
                          /\ in_tool_mapping(name)
                          /\ slot.handler = tool_mapping_get(name)
                    /\ (in_tool_to_server(name) /\ in_tool_mapping(name))
                          => slot.handler # None
                    /\ in_tool_to_server(name) # in_tool_mapping(name) =>
                          /\ slot.state = "done"
                          /\ slot.handler = None
                          /\ slot.raw = None
                          /\ IsToolResult(slot.result[1])
                          /\ ~slot.result[1].success

\* create_issue is recorded under the jira server and the handler that ran
\* is the github one the dispatcher's table names
C29_Witness ==
    \E t \in DoneTurns :
        /\ turn[t].kind = "batch_execute"
        /\ turn[t].validated[1].name = "create_issue"
        /\ get_server_for_tool(tool_to_server, "create_issue") = Some("jira")
        /\ turn[t].slots[1].handler = Some("github_create_issue")
        /\ turn[t].slots[1].raw # None

\* a call of process_llm_response on an executor that is not initialised
\* has returned the text it was given and an empty list, has invoked no
\* handler and has left the counters as they were
uninitialised_pass_through(t) ==
    /\ turn[t].pc \in { "idle", "done" }
    /\ turn[t].pc = "done" =>
          /\ turn[t].ret = Some(Returned(turn[t].llm_response, << >>))
          /\ turn[t].slots = << >>
          /\ turn[t].tool_calls = << >>
          /\ ~turn[t].executing
          /\ execution_stats = turn[t].stats0

(* C30: while the executor is not initialised, process_llm_response is a   *)
(* pass-through for every input: it returns the original text and an empty *)
(* list, changes no counter and invokes no handler.  Once get_tool_executor *)
(* has created the global executor, with a failed initialisation too, no   *)
(* later step initialises it again, so after a failed initialisation every *)
(* later turn is a pass-through.                                           *)
C30_UninitialisedStays ==
    /\ [](\A t \in { 1 } :
            (executor.created /\ ~executor.initialized
               /\ turn[t].kind \in { "", "process_llm_response" })
            => /\ uninitialised_pass_through(t)
               /\ execution_stats = ZeroStats)
    /\ [][executor.created => /\ executor' = executor
                              /\ tool_to_server' = tool_to_server]_vars

\* after a failed initialisation the second call in a row, for an agent with
\* tools and a response that carries native invocations, has passed through
C30_Witness ==
    /\ executor.created
    /\ ~executor.initialized
    /\ turn[1].pc = "done"
    /\ turn[1].kind = "process_llm_response"
    /\ turn[1].round = 1
    /\ turn[1].agent_id = "posiAgent"
    /\ turn[1].native # << >>
    /\ turn[1].ret = Some(Returned(turn[1].llm_response, << >>))

====
